---------------------------- MODULE Spec2Model ----------------------------
(***************************************************************************)
(* A model of the Skylark BI agent: the agentic tool-call loop of          *)
(* backend/agent.py (BIAgent.query and _run_tool), the query endpoint of   *)
(* backend/main.py that wraps it, the data source of                       *)
(* backend/monday_client.py as the loop sees it, and the cleaners and the  *)
(* quality report of backend/data_cleaner.py.                              *)
(*                                                                         *)
(* Text that the code inspects character by character (column titles and   *)
(* cell values) is a sequence of one-character strings; the characters     *)
(* outside ASCII are named: "endash", "rupee", "euro", "pound".  Text that *)
(* the code only compares or copies (tool names, board keys, messages) is  *)
(* a TLA+ string, and a formatted message is the tuple of its parts.       *)
(***************************************************************************)
EXTENDS Integers, Sequences, FiniteSets, TLC

(***************************************************************************)
(* Python's str operations, on sequences of characters.                    *)
(***************************************************************************)
UpperLetters == <<"A","B","C","D","E","F","G","H","I","J","K","L","M",
                  "N","O","P","Q","R","S","T","U","V","W","X","Y","Z">>

LowerLetters == <<"a","b","c","d","e","f","g","h","i","j","k","l","m",
                  "n","o","p","q","r","s","t","u","v","w","x","y","z">>

IsUpper(c) == \E i \in 1..26 : UpperLetters[i] = c

IsLower(c) == \E i \in 1..26 : LowerLetters[i] = c

IsLetter(c) == IsUpper(c) \/ IsLower(c)

IsDigit(c) == c \in {"0","1","2","3","4","5","6","7","8","9"}

IsSpace(c) == c \in {" ", "\t", "\n"}

LowerChar(c) ==
  IF IsUpper(c) THEN LowerLetters[CHOOSE i \in 1..26 : UpperLetters[i] = c] ELSE c

UpperChar(c) ==
  IF IsLower(c) THEN UpperLetters[CHOOSE i \in 1..26 : LowerLetters[i] = c] ELSE c

\* str.lower()
Lower(s) == [i \in 1..Len(s) |-> LowerChar(s[i])]

\* A text whose spaces are left as they are.
SpacesKept(s) == s

\* str.replace(" ", "_")
SpacesToUnderscores(s) == [i \in 1..Len(s) |-> IF s[i] = " " THEN "_" ELSE s[i]]

\* sub in s
Contains(s, sub) ==
  \E i \in 1..(Len(s) - Len(sub) + 1) : SubSeq(s, i, i + Len(sub) - 1) = sub

\* str.strip()
Strip(s) ==
  LET keep == {i \in 1..Len(s) : ~IsSpace(s[i])}
  IN  IF keep = {} THEN <<>>
      ELSE SubSeq(s, CHOOSE i \in keep : \A j \in keep : i <= j,
                     CHOOSE i \in keep : \A j \in keep : j <= i)

\* str.title(): a letter is upper-cased after a character that is no letter,
\* and lower-cased after a letter.
Title(s) ==
  [i \in 1..Len(s) |->
     IF i > 1 /\ IsLetter(s[i-1]) THEN LowerChar(s[i]) ELSE UpperChar(s[i])]

\* re.sub(r"[<rupee>$<euro><pound>,\s]", "", s)
StripCurrency(s) ==
  SelectSeq(s, LAMBDA c : ~(c \in {"rupee", "$", "euro", "pound", ","} \/ IsSpace(c)))

(***************************************************************************)
(* Cell values.  A cell of a row is None, a str, a float or a bool; every  *)
(* cell is a record of one shape so that cells of different types compare. *)
(* A float is held in hundredths (n = 100 * value); nan is a tag of its    *)
(* own.                                                                    *)
(***************************************************************************)
None == [t |-> "none", s |-> <<>>, n |-> 0]

Str(s) == [t |-> "str", s |-> s, n |-> 0]

Float(h) == [t |-> "float", s |-> <<>>, n |-> h]

NaN == [t |-> "nan", s |-> <<>>, n |-> 0]

Bool(b) == [t |-> "bool", s |-> <<>>, n |-> IF b THEN 1 ELSE 0]

\* pd.isna / Series.notna: None and nan are missing.
IsNA(v) == v.t \in {"none", "nan"}

\* Python truthiness of a cell ("if not stage").
Truthy(v) ==
  CASE v.t = "none"  -> FALSE
    [] v.t = "str"   -> v.s # <<>>
    [] v.t = "float" -> v.n # 0
    [] v.t = "nan"   -> TRUE
    [] v.t = "inf"   -> TRUE
    [] v.t = "bool"  -> v.n = 1

Inf(sign) == [t |-> "inf", s |-> <<>>, n |-> sign]

(***************************************************************************)
(* str(value) and float(s), for the cells and the texts of the model: a    *)
(* decimal numeral with an optional sign and fraction, and the words nan,  *)
(* inf and infinity.  A float keeps two decimals (the hundredths); the     *)
(* texts of the model carry no exponent and no digit-group underscore.     *)
(***************************************************************************)
DigitChars == <<"0","1","2","3","4","5","6","7","8","9">>

DigitVal(c) == (CHOOSE i \in 1..10 : DigitChars[i] = c) - 1

RECURSIVE NatDigits(_)
NatDigits(n) ==
  IF n < 10 THEN <<DigitChars[n + 1]>>
  ELSE Append(NatDigits(n \div 10), DigitChars[(n % 10) + 1])

RECURSIVE DigitsVal(_)
DigitsVal(ds) ==
  IF ds = <<>> THEN 0
  ELSE 10 * DigitsVal(SubSeq(ds, 1, Len(ds) - 1)) + DigitVal(ds[Len(ds)])

PyStr(v) ==
  CASE v.t = "str"   -> v.s
    [] v.t = "none"  -> <<"N","o","n","e">>
    [] v.t = "nan"   -> <<"n","a","n">>
    [] v.t = "inf"   -> IF v.n < 0 THEN <<"-","i","n","f">> ELSE <<"i","n","f">>
    [] v.t = "bool"  -> IF v.n = 1 THEN <<"T","r","u","e">> ELSE <<"F","a","l","s","e">>
    [] v.t = "float" ->
         LET a    == IF v.n < 0 THEN 0 - v.n ELSE v.n
             frac == a % 100
             fs   == IF frac % 10 = 0 THEN <<DigitChars[(frac \div 10) + 1]>>
                     ELSE <<DigitChars[(frac \div 10) + 1], DigitChars[(frac % 10) + 1]>>
         IN  (IF v.n < 0 THEN <<"-">> ELSE <<>>) \o NatDigits(a \div 100) \o <<".">> \o fs

\* float(s): the parsed cell, or None where Python raises ValueError.
ParseFloat(s) ==
  LET signed == s # <<>> /\ s[1] \in {"+", "-"}
      sign   == IF signed /\ s[1] = "-" THEN 0 - 1 ELSE 1
      body   == IF signed THEN Tail(s) ELSE s
      dots   == {i \in 1..Len(body) : body[i] = "."}
      dot    == IF dots = {} THEN Len(body) + 1 ELSE CHOOSE i \in dots : TRUE
      ip     == SubSeq(body, 1, dot - 1)
      fp     == SubSeq(body, dot + 1, Len(body))
      AllDigits(ds) == \A i \in 1..Len(ds) : IsDigit(ds[i])
      fp2    == SubSeq(fp \o <<"0","0">>, 1, 2)
  IN  IF Lower(body) = <<"n","a","n">> THEN NaN
      ELSE IF Lower(body) \in {<<"i","n","f">>, <<"i","n","f","i","n","i","t","y">>} THEN Inf(sign)
      ELSE IF Cardinality(dots) <= 1 /\ AllDigits(ip) /\ AllDigits(fp)
              /\ Len(ip) + Len(fp) > 0
           THEN Float(sign * (100 * DigitsVal(ip) + DigitsVal(fp2)))
      ELSE None

(***************************************************************************)
(* data_cleaner.py                                                         *)
(***************************************************************************)
\* The label of a stage letter; the letters a..o are the keys.
DEAL_STAGE_MAP(code) ==
  CASE code = "a" -> <<"A"," ","endash"," ","L","e","a","d"," ","G","e","n","e","r","a","t","e","d">>
    [] code = "b" -> <<"B"," ","endash"," ","S","a","l","e","s"," ","Q","u","a","l","i","f","i","e","d"," ","L","e","a","d">>
    [] code = "c" -> <<"C"," ","endash"," ","D","e","m","o"," ","D","o","n","e">>
    [] code = "d" -> <<"D"," ","endash"," ","F","e","a","s","i","b","i","l","i","t","y">>
    [] code = "e" -> <<"E"," ","endash"," ","P","r","o","p","o","s","a","l","/","C","o","m","m","e","r","c","i","a","l","s"," ","S","e","n","t">>
    [] code = "f" -> <<"F"," ","endash"," ","N","e","g","o","t","i","a","t","i","o","n","s">>
    [] code = "g" -> <<"G"," ","endash"," ","P","r","o","j","e","c","t"," ","W","o","n">>
    [] code = "h" -> <<"H"," ","endash"," ","W","o","r","k"," ","O","r","d","e","r"," ","R","e","c","e","i","v","e","d">>
    [] code = "i" -> <<"I"," ","endash"," ","P","O","C">>
    [] code = "j" -> <<"J"," ","endash"," ","I","n","v","o","i","c","e"," ","S","e","n","t">>
    [] code = "k" -> <<"K"," ","endash"," ","A","m","o","u","n","t"," ","A","c","c","r","u","e","d">>
    [] code = "l" -> <<"L"," ","endash"," ","P","r","o","j","e","c","t"," ","L","o","s","t">>
    [] code = "m" -> <<"M"," ","endash"," ","P","r","o","j","e","c","t","s"," ","O","n"," ","H","o","l","d">>
    [] code = "n" -> <<"N"," ","endash"," ","N","o","t"," ","R","e","l","e","v","a","n","t"," ","A","t"," ","T","h","e"," ","M","o","m","e","n","t">>
    [] code = "o" -> <<"O"," ","endash"," ","N","o","t"," ","R","e","l","e","v","a","n","t"," ","A","t"," ","A","l","l">>

StageCodes == {"a","b","c","d","e","f","g","h","i","j","k","l","m","n","o"}

SENTINEL_DEAL_STATUS == {<<"d","e","a","l"," ","s","t","a","t","u","s">>, <<"d","e","a","l","_","s","t","a","t","u","s">>}

SENTINEL_DEAL_STAGE == {<<"d","e","a","l"," ","s","t","a","g","e">>, <<"d","e","a","l","_","s","t","a","g","e">>}

SENTINEL_SECTOR == {<<"s","e","c","t","o","r","/","s","e","r","v","i","c","e">>, <<"s","e","c","t","o","r">>}

ACTIVE_DEAL_STATUSES == {<<"o","p","e","n">>}

WON_DEAL_STATUSES == {<<"w","o","n">>}

DEAD_DEAL_STATUSES == {<<"d","e","a","d">>, <<"l","o","s","t">>, <<"p","r","o","j","e","c","t"," ","l","o","s","t">>}

ON_HOLD_STATUSES == {<<"o","n"," ","h","o","l","d">>, <<"h","o","l","d">>}

COMPLETED_WO_STATUSES == {<<"c","o","m","p","l","e","t","e","d">>}

ONGOING_WO_STATUSES ==
  {<<"o","n","g","o","i","n","g">>, <<"i","n"," ","p","r","o","g","r","e","s","s">>, <<"e","x","e","c","u","t","e","d"," ","u","n","t","i","l"," ","c","u","r","r","e","n","t"," ","m","o","n","t","h">>,
   <<"p","a","r","t","i","a","l"," ","c","o","m","p","l","e","t","e","d">>, <<"p","a","u","s","e"," ","/"," ","s","t","r","u","c","k">>, <<"d","e","t","a","i","l","s"," ","p","e","n","d","i","n","g"," ","f","r","o","m"," ","c","l","i","e","n","t">>}

parse_number(value) ==
  IF value.t = "none" \/ value.t = "nan" THEN None
  ELSE LET s == Strip(StripCurrency(PyStr(value)))
       IN  IF s = <<>> THEN None ELSE ParseFloat(s)

normalise_stage(stage) ==
  IF ~Truthy(stage) THEN None
  ELSE LET s == Strip(PyStr(stage))
       IN  IF Len(s) >= 2 /\ IsLetter(s[1]) /\ s[2] = "."
           THEN IF LowerChar(s[1]) \in StageCodes
                THEN Str(DEAL_STAGE_MAP(LowerChar(s[1])))
                ELSE stage
           ELSE stage

\* A grouping that tries the groups from the last to the first.
stage_group_last_first(stage) ==
  IF ~Truthy(stage) THEN <<"U","n","k","n","o","w","n">>
  ELSE LET s == Lower(PyStr(stage))
           any(xs) == \E x \in xs : Contains(s, x)
       IN  IF any({<<"l","o","s","t">>, <<"n","o","t"," ","r","e","l","e","v","a","n","t">>, <<"o","n"," ","h","o","l","d">>}) THEN <<"C","l","o","s","e","d","/","I","n","a","c","t","i","v","e">>
           ELSE IF any({<<"w","o","r","k"," ","o","r","d","e","r">>, <<"p","r","o","j","e","c","t"," ","w","o","n">>, <<"i","n","v","o","i","c","e">>, <<"a","m","o","u","n","t"," ","a","c","c","r","u","e","d">>})
                THEN <<"W","o","n","/","E","x","e","c","u","t","i","o","n">>
           ELSE IF any({<<"p","r","o","p","o","s","a","l">>, <<"n","e","g","o","t","i","a","t">>, <<"p","o","c">>}) THEN <<"A","c","t","i","v","e"," ","P","u","r","s","u","i","t">>
           ELSE IF any({<<"d","e","m","o">>, <<"f","e","a","s","i","b","i","l","i","t","y">>}) THEN <<"Q","u","a","l","i","f","i","c","a","t","i","o","n">>
           ELSE IF any({<<"l","e","a","d"," ","g","e","n","e","r","a","t","e","d">>, <<"s","a","l","e","s"," ","q","u","a","l","i","f","i","e","d">>}) THEN <<"E","a","r","l","y"," ","S","t","a","g","e">>
           ELSE <<"O","t","h","e","r">>

stage_group(stage) ==
  IF ~Truthy(stage) THEN <<"U","n","k","n","o","w","n">>
  ELSE LET s == Lower(PyStr(stage))
           any(xs) == \E x \in xs : Contains(s, x)
       IN  IF any({<<"l","e","a","d"," ","g","e","n","e","r","a","t","e","d">>, <<"s","a","l","e","s"," ","q","u","a","l","i","f","i","e","d">>}) THEN <<"E","a","r","l","y"," ","S","t","a","g","e">>
           ELSE IF any({<<"d","e","m","o">>, <<"f","e","a","s","i","b","i","l","i","t","y">>}) THEN <<"Q","u","a","l","i","f","i","c","a","t","i","o","n">>
           ELSE IF any({<<"p","r","o","p","o","s","a","l">>, <<"n","e","g","o","t","i","a","t">>, <<"p","o","c">>}) THEN <<"A","c","t","i","v","e"," ","P","u","r","s","u","i","t">>
           ELSE IF any({<<"w","o","r","k"," ","o","r","d","e","r">>, <<"p","r","o","j","e","c","t"," ","w","o","n">>, <<"i","n","v","o","i","c","e">>, <<"a","m","o","u","n","t"," ","a","c","c","r","u","e","d">>})
                THEN <<"W","o","n","/","E","x","e","c","u","t","i","o","n">>
           ELSE IF any({<<"l","o","s","t">>, <<"n","o","t"," ","r","e","l","e","v","a","n","t">>, <<"o","n"," ","h","o","l","d">>}) THEN <<"C","l","o","s","e","d","/","I","n","a","c","t","i","v","e">>
           ELSE <<"O","t","h","e","r">>

normalise_sector(sector) ==
  IF ~Truthy(sector) THEN None
  ELSE LET s == Strip(PyStr(sector))
       IN  IF Lower(s) \in SENTINEL_SECTOR THEN None ELSE Str(Title(s))

(***************************************************************************)
(* A DataFrame, and a list of row dicts with common keys, is a table: the  *)
(* column names in order and the rows, each the cells in column order.     *)
(* pd.DataFrame() and pd.DataFrame([]) are the table without columns.      *)
(***************************************************************************)
EmptyFrame == [cols |-> <<>>, rows |-> <<>>]

RECURSIVE Pick(_, _, _)
\* The elements of seq whose index is in keep, from index i on, in order.
Pick(seq, keep, i) ==
  IF i > Len(seq) THEN <<>>
  ELSE (IF i \in keep THEN <<seq[i]>> ELSE <<>>) \o Pick(seq, keep, i + 1)

HasCol(df, name) == \E i \in 1..Len(df.cols) : df.cols[i] = name

ColIndex(df, name) == CHOOSE i \in 1..Len(df.cols) : df.cols[i] = name

\* df[name]
Col(df, name) == [r \in 1..Len(df.rows) |-> df.rows[r][ColIndex(df, name)]]

\* df[name] = vals
SetCol(df, name, vals) ==
  IF HasCol(df, name)
  THEN [df EXCEPT !.rows =
          [r \in 1..Len(df.rows) |-> [df.rows[r] EXCEPT ![ColIndex(df, name)] = vals[r]]]]
  ELSE [cols |-> Append(df.cols, name),
        rows |-> [r \in 1..Len(df.rows) |-> Append(df.rows[r], vals[r])]]

\* df.rename(columns=rename) followed by
\* df.loc[:, ~df.columns.duplicated(keep='last')]
RenameColumns(df, names) ==
  LET keep == {i \in 1..Len(names) : ~\E j \in (i+1)..Len(names) : names[j] = names[i]}
  IN  [cols |-> Pick(names, keep, 1),
       rows |-> [r \in 1..Len(df.rows) |-> Pick(df.rows[r], keep, 1)]]

RECURSIVE EnsureColumns(_, _)
\* for col in names: if col not in df.columns: df[col] = None
EnsureColumns(df, names) ==
  IF names = <<>> THEN df
  ELSE EnsureColumns(
         IF HasCol(df, Head(names)) THEN df
         ELSE SetCol(df, Head(names), [r \in 1..Len(df.rows) |-> None]),
         Tail(names))

\* df[~mask].reset_index(drop=True)
DropRows(df, mask) ==
  [df EXCEPT !.rows = Pick(df.rows, {r \in 1..Len(df.rows) : ~mask[r]}, 1)]

\* The .str accessor refuses a Series whose values, the missing ones aside,
\* are all floats or all bools (AttributeError); it takes strings, an empty or
\* all-missing Series, and a mix of types.
StrAccessorOK(vals) ==
  LET kinds == {IF vals[r].t = "inf" THEN "float" ELSE vals[r].t :
                  r \in {q \in 1..Len(vals) : ~IsNA(vals[q])}}
  IN  kinds \subseteq {"str"} \/ Cardinality(kinds) >= 2

\* One element of Series.str.lower().isin(values)
LowerIsIn(v, values) == v.t = "str" /\ Lower(v.s) \in values

StripTitle(s) == Title(Strip(s))

\* df.where(df.notna(), None).to_dict(orient="records"): the list of row dicts,
\* which for a frame without rows is the empty list and names no column.
ToRecords(df) ==
  IF df.rows = <<>> THEN EmptyFrame
  ELSE [df EXCEPT !.rows =
          [r \in 1..Len(df.rows) |->
             [c \in 1..Len(df.cols) |->
                IF IsNA(df.rows[r][c]) THEN None ELSE df.rows[r][c]]]]

\* One element of Series.str.strip().str.title(), and of Series.str.strip():
\* the text of a str, missing for anything else.
StrStripTitle(v) == IF v.t = "str" THEN Str(StripTitle(v.s)) ELSE None

StrStrip(v) == IF v.t = "str" THEN Str(Strip(v.s)) ELSE None

\* The result of the column operation f for one element.
CellFn(f, v) ==
  CASE f = "apply(parse_number)"     -> parse_number(v)
    [] f = "apply(normalise_stage)"  -> normalise_stage(v)
    [] f = "apply(stage_group)"      -> Str(stage_group(v))
    [] f = "apply(normalise_sector)" -> normalise_sector(v)
    [] f = "str.strip().str.title()" -> StrStripTitle(v)
    [] f = "str.strip()"             -> StrStrip(v)

\* df[dst] = df[src].<f>
MapCol(df, dst, src, f) ==
  SetCol(df, dst, [r \in 1..Len(df.rows) |-> CellFn(f, Col(df, src)[r])])

\* df[dst] = df[src].str.lower().isin(values)
FlagCol(df, dst, src, values) ==
  SetCol(df, dst, [r \in 1..Len(df.rows) |-> Bool(LowerIsIn(Col(df, src)[r], values))])

\* A mask that compares the values with the labels as they are cased.
DealSentinelMaskCased(df) ==
  [r \in 1..Len(df.rows) |->
     \/ Col(df, <<"s","t","a","t","u","s">>)[r].s \in SENTINEL_DEAL_STATUS
     \/ Col(df, <<"s","t","a","g","e","_","r","a","w">>)[r].s \in SENTINEL_DEAL_STAGE
     \/ Col(df, <<"s","e","c","t","o","r","_","r","a","w">>)[r].s \in SENTINEL_SECTOR]

\* The mask of the header rows that recur among the rows of the deals board.
DealSentinelMask(df) ==
  [r \in 1..Len(df.rows) |->
     \/ LowerIsIn(Col(df, <<"s","t","a","t","u","s">>)[r], SENTINEL_DEAL_STATUS)
     \/ LowerIsIn(Col(df, <<"s","t","a","g","e","_","r","a","w">>)[r], SENTINEL_DEAL_STAGE)
     \/ LowerIsIn(Col(df, <<"s","e","c","t","o","r","_","r","a","w">>)[r], SENTINEL_SECTOR)]

\* The canonical name of a raw deal column (the if/elif chain of clean_deals).
deal_rename(col) ==
  LET lc == SpacesToUnderscores(Lower(col))
      has(x) == Contains(lc, x)
  IN  IF lc \in {<<"d","e","a","l","_","n","a","m","e">>, <<"_","n","a","m","e">>} THEN <<"d","e","a","l","_","n","a","m","e">>
      ELSE IF has(<<"o","w","n","e","r">>) THEN <<"o","w","n","e","r","_","c","o","d","e">>
      ELSE IF has(<<"c","l","i","e","n","t">>) \/ has(<<"c","o","m","p","a","n","y">>) THEN <<"c","l","i","e","n","t","_","c","o","d","e">>
      ELSE IF lc = <<"d","e","a","l","_","s","t","a","t","u","s">> THEN <<"s","t","a","t","u","s">>
      ELSE IF has(<<"c","l","o","s","e","_","d","a","t","e">>) /\ ~has(<<"t","e","n","t","a","t","i","v","e">>) /\ ~has(<<"a","c","t","u","a","l">>)
           THEN <<"c","l","o","s","e","_","d","a","t","e","_","a","c","t","u","a","l">>
      ELSE IF has(<<"c","l","o","s","u","r","e","_","p","r","o","b","a","b","i","l","i","t","y">>) \/ has(<<"p","r","o","b","a","b","i","l","i","t","y">>)
           THEN <<"c","l","o","s","u","r","e","_","p","r","o","b","a","b","i","l","i","t","y">>
      ELSE IF has(<<"m","a","s","k","e","d","_","d","e","a","l","_","v","a","l","u","e">>) \/ has(<<"d","e","a","l","_","v","a","l","u","e">>) \/ has(<<"v","a","l","u","e">>)
           THEN <<"d","e","a","l","_","v","a","l","u","e","_","r","a","w">>
      ELSE IF has(<<"t","e","n","t","a","t","i","v","e">>) /\ has(<<"c","l","o","s","e">>) THEN <<"t","e","n","t","a","t","i","v","e","_","c","l","o","s","e","_","d","a","t","e">>
      ELSE IF lc = <<"d","e","a","l","_","s","t","a","g","e">> THEN <<"s","t","a","g","e","_","r","a","w">>
      ELSE IF has(<<"p","r","o","d","u","c","t">>) THEN <<"p","r","o","d","u","c","t">>
      ELSE IF has(<<"s","e","c","t","o","r">>) \/ has(<<"s","e","r","v","i","c","e">>) THEN <<"s","e","c","t","o","r","_","r","a","w">>
      ELSE IF has(<<"c","r","e","a","t","e","d">>) THEN <<"c","r","e","a","t","e","d","_","d","a","t","e">>
      ELSE col

\* The rename dict of clean_deals, as the new names in column order.
DealNames(df) == [i \in 1..Len(df.cols) |-> deal_rename(df.cols[i])]

DealRequiredColumns ==
  << <<"d","e","a","l","_","n","a","m","e">>, <<"s","t","a","t","u","s">>, <<"s","t","a","g","e","_","r","a","w">>, <<"s","e","c","t","o","r","_","r","a","w">>, <<"d","e","a","l","_","v","a","l","u","e","_","r","a","w">>,
     <<"c","l","o","s","u","r","e","_","p","r","o","b","a","b","i","l","i","t","y">>, <<"o","w","n","e","r","_","c","o","d","e">> >>

\* The result of a cleaner: the frame, or raised when pandas raises.
Cleaned(df) == [raised |-> FALSE, df |-> df]

CleanRaised == [raised |-> TRUE, df |-> EmptyFrame]

clean_deals(rows) ==
  LET df1 == RenameColumns(rows, DealNames(rows))
      df2 == EnsureColumns(df1, DealRequiredColumns)
      df3 == DropRows(df2, DealSentinelMask(df2))
      df4 == MapCol(df3, <<"s","t","a","t","u","s">>, <<"s","t","a","t","u","s">>, "str.strip().str.title()")
      df5 == MapCol(df4, <<"d","e","a","l","_","v","a","l","u","e">>, <<"d","e","a","l","_","v","a","l","u","e","_","r","a","w">>, "apply(parse_number)")
      df6 == MapCol(df5, <<"s","t","a","g","e">>, <<"s","t","a","g","e","_","r","a","w">>, "apply(normalise_stage)")
      df7 == MapCol(df6, <<"s","t","a","g","e","_","g","r","o","u","p">>, <<"s","t","a","g","e">>, "apply(stage_group)")
      df8 == MapCol(df7, <<"s","e","c","t","o","r">>, <<"s","e","c","t","o","r","_","r","a","w">>, "apply(normalise_sector)")
      df9 == MapCol(df8, <<"c","l","o","s","u","r","e","_","p","r","o","b","a","b","i","l","i","t","y">>, <<"c","l","o","s","u","r","e","_","p","r","o","b","a","b","i","l","i","t","y">>, "str.strip().str.title()")
      dfa == FlagCol(df9, <<"i","s","_","o","p","e","n">>, <<"s","t","a","t","u","s">>, ACTIVE_DEAL_STATUSES)
      dfb == FlagCol(dfa, <<"i","s","_","w","o","n">>, <<"s","t","a","t","u","s">>, WON_DEAL_STATUSES)
      dfc == FlagCol(dfb, <<"i","s","_","d","e","a","d">>, <<"s","t","a","t","u","s">>, DEAD_DEAL_STATUSES)
      dfd == FlagCol(dfc, <<"i","s","_","o","n","_","h","o","l","d">>, <<"s","t","a","t","u","s">>, ON_HOLD_STATUSES)
  IN  IF /\ StrAccessorOK(Col(df2, <<"s","t","a","t","u","s">>))
         /\ StrAccessorOK(Col(df2, <<"s","t","a","g","e","_","r","a","w">>))
         /\ StrAccessorOK(Col(df2, <<"s","e","c","t","o","r","_","r","a","w">>))
         /\ StrAccessorOK(Col(df3, <<"s","t","a","t","u","s">>))
         /\ StrAccessorOK(Col(df3, <<"c","l","o","s","u","r","e","_","p","r","o","b","a","b","i","l","i","t","y">>))
      THEN Cleaned(dfd)
      ELSE CleanRaised

\* The canonical name of a raw work-order column (the chain of clean_workorders).
wo_rename(col) ==
  LET lc == SpacesToUnderscores(Lower(col))
      has(x) == Contains(lc, x)
  IN  IF has(<<"d","e","a","l","_","n","a","m","e">>) \/ lc = <<"_","n","a","m","e">> THEN <<"d","e","a","l","_","n","a","m","e">>
      ELSE IF has(<<"c","u","s","t","o","m","e","r">>) \/ (has(<<"c","o","m","p","a","n","y">>) /\ has(<<"n","a","m","e">>)) THEN <<"c","u","s","t","o","m","e","r","_","c","o","d","e">>
      ELSE IF has(<<"s","e","r","i","a","l">>) THEN <<"s","e","r","i","a","l","_","n","o">>
      ELSE IF has(<<"n","a","t","u","r","e">>) THEN <<"n","a","t","u","r","e","_","o","f","_","w","o","r","k">>
      ELSE IF has(<<"e","x","e","c","u","t","i","o","n","_","s","t","a","t","u","s">>) THEN <<"e","x","e","c","u","t","i","o","n","_","s","t","a","t","u","s">>
      ELSE IF has(<<"s","e","c","t","o","r">>) THEN <<"s","e","c","t","o","r","_","r","a","w">>
      ELSE IF has(<<"t","y","p","e","_","o","f","_","w","o","r","k">>) THEN <<"t","y","p","e","_","o","f","_","w","o","r","k">>
      ELSE IF has(<<"a","m","o","u","n","t">>) /\ has(<<"e","x","c","l">>) /\ ~has(<<"b","i","l","l","e","d">>) /\ ~has(<<"b","e","_","b","i","l","l","e","d">>)
           THEN <<"a","m","o","u","n","t","_","e","x","c","l","_","g","s","t","_","r","a","w">>
      ELSE IF has(<<"a","m","o","u","n","t">>) /\ has(<<"i","n","c","l">>) /\ ~has(<<"b","i","l","l","e","d">>) /\ ~has(<<"b","e","_","b","i","l","l","e","d">>)
              /\ ~has(<<"c","o","l","l","e","c","t","e","d">>)
           THEN <<"a","m","o","u","n","t","_","i","n","c","l","_","g","s","t","_","r","a","w">>
      ELSE IF has(<<"b","i","l","l","e","d","_","v","a","l","u","e">>) /\ has(<<"e","x","c","l">>) THEN <<"b","i","l","l","e","d","_","e","x","c","l","_","g","s","t","_","r","a","w">>
      ELSE IF has(<<"b","i","l","l","e","d","_","v","a","l","u","e">>) /\ has(<<"i","n","c","l">>) THEN <<"b","i","l","l","e","d","_","i","n","c","l","_","g","s","t","_","r","a","w">>
      ELSE IF has(<<"c","o","l","l","e","c","t","e","d","_","a","m","o","u","n","t">>) \/ (has(<<"c","o","l","l","e","c","t","e","d">>) /\ has(<<"a","m","o","u","n","t">>))
           THEN <<"c","o","l","l","e","c","t","e","d","_","r","a","w">>
      ELSE IF has(<<"a","m","o","u","n","t","_","r","e","c","e","i","v","a","b","l","e">>) \/ has(<<"r","e","c","e","i","v","a","b","l","e">>) THEN <<"r","e","c","e","i","v","a","b","l","e","_","r","a","w">>
      ELSE IF has(<<"w","o","_","s","t","a","t","u","s">>) \/ (has(<<"s","t","a","t","u","s">>) /\ has(<<"b","i","l","l","e","d">>)) THEN <<"w","o","_","s","t","a","t","u","s">>
      ELSE IF has(<<"c","o","l","l","e","c","t","i","o","n","_","s","t","a","t","u","s">>) \/ (has(<<"c","o","l","l","e","c","t","i","o","n">>) /\ has(<<"s","t","a","t","u","s">>))
           THEN <<"c","o","l","l","e","c","t","i","o","n","_","s","t","a","t","u","s">>
      ELSE IF has(<<"b","i","l","l","i","n","g","_","s","t","a","t","u","s">>) THEN <<"b","i","l","l","i","n","g","_","s","t","a","t","u","s">>
      ELSE IF has(<<"p","e","r","s","o","n","n","e","l">>) \/ has(<<"k","a","m">>) \/ has(<<"b","d">>) THEN <<"p","e","r","s","o","n","n","e","l","_","c","o","d","e">>
      ELSE IF has(<<"p","o">>) \/ has(<<"l","o","i">>) THEN <<"p","o","_","d","a","t","e">>
      ELSE IF has(<<"i","n","v","o","i","c","e","_","d","a","t","e">>) \/ (has(<<"i","n","v","o","i","c","e">>) /\ has(<<"d","a","t","e">>))
           THEN <<"l","a","s","t","_","i","n","v","o","i","c","e","_","d","a","t","e">>
      ELSE col

\* The rename dict of clean_workorders, as the new names in column order.
WoNames(df) == [i \in 1..Len(df.cols) |-> wo_rename(df.cols[i])]

WoRequiredColumns ==
  << <<"d","e","a","l","_","n","a","m","e">>, <<"e","x","e","c","u","t","i","o","n","_","s","t","a","t","u","s">>, <<"s","e","c","t","o","r","_","r","a","w">>, <<"a","m","o","u","n","t","_","e","x","c","l","_","g","s","t","_","r","a","w">>,
     <<"a","m","o","u","n","t","_","i","n","c","l","_","g","s","t","_","r","a","w">>, <<"b","i","l","l","e","d","_","i","n","c","l","_","g","s","t","_","r","a","w">>, <<"c","o","l","l","e","c","t","e","d","_","r","a","w">>,
     <<"r","e","c","e","i","v","a","b","l","e","_","r","a","w">>, <<"b","i","l","l","i","n","g","_","s","t","a","t","u","s">>, <<"w","o","_","s","t","a","t","u","s">> >>

WoFinancialColumns ==
  << <<"a","m","o","u","n","t","_","e","x","c","l","_","g","s","t">>, <<"a","m","o","u","n","t","_","i","n","c","l","_","g","s","t">>, <<"b","i","l","l","e","d","_","i","n","c","l","_","g","s","t">>, <<"c","o","l","l","e","c","t","e","d">>,
     <<"r","e","c","e","i","v","a","b","l","e">> >>

\* The financial columns left as they were parsed.
FillNaSkipped(df, names) == df

RECURSIVE FillNaZero(_, _)
\* for col in names: df[col] = df[col].fillna(0.0)
FillNaZero(df, names) ==
  IF names = <<>> THEN df
  ELSE FillNaZero(
         SetCol(df, Head(names),
                [r \in 1..Len(df.rows) |->
                   IF IsNA(Col(df, Head(names))[r]) THEN Float(0)
                   ELSE Col(df, Head(names))[r]]),
         Tail(names))

clean_workorders(rows) ==
  LET df1 == RenameColumns(rows, WoNames(rows))
      df2 == EnsureColumns(df1, WoRequiredColumns)
      df3 == MapCol(df2, <<"a","m","o","u","n","t","_","e","x","c","l","_","g","s","t">>, <<"a","m","o","u","n","t","_","e","x","c","l","_","g","s","t","_","r","a","w">>, "apply(parse_number)")
      df4 == MapCol(df3, <<"a","m","o","u","n","t","_","i","n","c","l","_","g","s","t">>, <<"a","m","o","u","n","t","_","i","n","c","l","_","g","s","t","_","r","a","w">>, "apply(parse_number)")
      df5 == MapCol(df4, <<"b","i","l","l","e","d","_","i","n","c","l","_","g","s","t">>, <<"b","i","l","l","e","d","_","i","n","c","l","_","g","s","t","_","r","a","w">>, "apply(parse_number)")
      df6 == MapCol(df5, <<"c","o","l","l","e","c","t","e","d">>, <<"c","o","l","l","e","c","t","e","d","_","r","a","w">>, "apply(parse_number)")
      df7 == MapCol(df6, <<"r","e","c","e","i","v","a","b","l","e">>, <<"r","e","c","e","i","v","a","b","l","e","_","r","a","w">>, "apply(parse_number)")
      df8 == MapCol(df7, <<"s","e","c","t","o","r">>, <<"s","e","c","t","o","r","_","r","a","w">>, "apply(normalise_sector)")
      df9 == MapCol(df8, <<"e","x","e","c","u","t","i","o","n","_","s","t","a","t","u","s">>, <<"e","x","e","c","u","t","i","o","n","_","s","t","a","t","u","s">>, "str.strip()")
      dfa == FlagCol(df9, <<"i","s","_","c","o","m","p","l","e","t","e","d">>, <<"e","x","e","c","u","t","i","o","n","_","s","t","a","t","u","s">>, COMPLETED_WO_STATUSES)
      dfb == FlagCol(dfa, <<"i","s","_","o","n","g","o","i","n","g">>, <<"e","x","e","c","u","t","i","o","n","_","s","t","a","t","u","s">>, ONGOING_WO_STATUSES)
  IN  IF StrAccessorOK(Col(df2, <<"e","x","e","c","u","t","i","o","n","_","s","t","a","t","u","s">>))
      THEN Cleaned(FillNaZero(dfb, WoFinancialColumns))
      ELSE CleanRaised

\* round(filled / total * 100, 1), in tenths of a percent (ties to even).
Completeness(df) ==
  LET total  == Len(df.rows) * Len(df.cols)
      filled == Cardinality({<<r, c>> \in (1..Len(df.rows)) \X (1..Len(df.cols)) :
                               ~IsNA(df.rows[r][c])})
      q      == (filled * 1000) \div total
      rem    == (filled * 1000) % total
  IN  IF total = 0 THEN 1000
      ELSE IF 2 * rem > total \/ (2 * rem = total /\ q % 2 = 1) THEN q + 1
      ELSE q

\* f"{_completeness(df)}%"
CompletenessText(df) == PyStr(Float(10 * Completeness(df))) \o <<"%">>

\* The issue line f"{count} <text>", when the count is not zero.
Issue(count, text) == IF count = 0 THEN <<>> ELSE <<[count |-> count, text |-> text]>>

\* df[name].isna().sum()
CountMissing(df, name) == Cardinality({r \in 1..Len(df.rows) : IsNA(Col(df, name)[r])})

IsZero(v) == (v.t = "float" /\ v.n = 0) \/ (v.t = "bool" /\ v.n = 0)

\* (df[name] == 0).sum()
CountZero(df, name) == Cardinality({r \in 1..Len(df.rows) : IsZero(Col(df, name)[r])})

\* DataFrame.empty
FrameEmpty(df) == Len(df.rows) = 0 \/ Len(df.cols) = 0

quality_report(deals_df, wo_df) ==
  LET dissue(name, text) ==
        IF ~FrameEmpty(deals_df) /\ HasCol(deals_df, name)
        THEN Issue(CountMissing(deals_df, name), text) ELSE <<>>
      wissue(name, text) ==
        IF ~FrameEmpty(wo_df) /\ HasCol(wo_df, name)
        THEN Issue(CountZero(wo_df, name), text) ELSE <<>>
  IN  [deals_rows         |-> Len(deals_df.rows),
       wo_rows            |-> Len(wo_df.rows),
       deals_completeness |-> CompletenessText(deals_df),
       wo_completeness    |-> CompletenessText(wo_df),
       issues             |-> dissue(<<"d","e","a","l","_","v","a","l","u","e">>, " deals have no deal value")
                              \o dissue(<<"s","e","c","t","o","r">>, " deals have no sector")
                              \o dissue(<<"s","t","a","g","e">>, " deals have no stage")
                              \o wissue(<<"a","m","o","u","n","t","_","e","x","c","l","_","g","s","t">>, " work orders have 0 / missing amount")
                              \o wissue(<<"c","o","l","l","e","c","t","e","d">>, " work orders show 0 collected")]

(***************************************************************************)
(* monday_client.py, as the tool dispatcher sees it.                       *)
(*                                                                         *)
(* A call into the client meets one answer of the Monday.com server, which *)
(* the environment chooses: whether a board is stored under the board id,  *)
(* the board's name, column titles and items (the flat rows that           *)
(* _row_from_item makes of them), and which GraphQL request of the call,   *)
(* if any, fails, and how (failAt = 0: none fails).                        *)
(***************************************************************************)
\* An exception, by its class name and str(exc).
Raise(exc, text) == [raised |-> exc, text |-> text, value |-> <<>>]

\* A value returned.
Return(v) == [raised |-> "", text |-> <<>>, value |-> v]

\* MondayClient.__init__: the key given, else the environment's.
MondayClientKey(api_key, env_key) == IF Truthy(api_key) THEN api_key ELSE env_key

\* _gql: the n-th request of a call fails with the server's failure.  A
\* timeout is httpx.TimeoutException; an HTTP status other than 200 and an
\* "errors" reply are RuntimeError.
GqlFails(server, n) == server.failAt = n

GqlFailure(server) ==
  IF server.failure = "timeout"
  THEN Raise("TimeoutException", <<"The read operation timed out">>)
  ELSE Raise("RuntimeError", <<"Monday.com HTTP 500: ", "Internal Server Error">>)

get_columns(server, board_id) ==
  IF GqlFails(server, 1) THEN GqlFailure(server)
  ELSE IF ~server.exists
       THEN Return([error |-> <<"Board ", board_id, " not found or not accessible">>])
  ELSE Return([board_name |-> server.name,
               columns    |-> [i \in 1..Len(server.titles) |->
                                 [id |-> i, title |-> server.titles[i], type |-> "text"]]])

DefaultPageSize == 100

RECURSIVE FetchPagesPartial(_, _, _, _)
\* A fetch that ends at a failed request and returns the pages it has.
FetchPagesPartial(server, page_size, start, n) ==
  LET total  == Len(server.items.rows)
      last   == IF start + page_size - 1 < total THEN start + page_size - 1 ELSE total
      items  == SubSeq(server.items.rows, start, last)
      cursor == last < total
  IN  IF GqlFails(server, n) THEN Return(<<>>)
      ELSE IF ~cursor \/ Len(items) < page_size THEN Return(items)
      ELSE Return(items \o FetchPagesPartial(server, page_size, last + 1, n + 1).value)

RECURSIVE FetchPages(_, _, _, _)
\* The while loop of get_all_items from the item at index start on, its next
\* request being the n-th of the call: the rows gathered, or the failure.
FetchPages(server, page_size, start, n) ==
  LET total  == Len(server.items.rows)
      last   == IF start + page_size - 1 < total THEN start + page_size - 1 ELSE total
      items  == SubSeq(server.items.rows, start, last)
      cursor == last < total
  IN  IF GqlFails(server, n) THEN GqlFailure(server)
      ELSE IF ~cursor \/ Len(items) < page_size THEN Return(items)
      ELSE LET rest == FetchPages(server, page_size, last + 1, n + 1)
           IN  IF rest.raised # "" THEN rest ELSE Return(items \o rest.value)

get_all_items(server, board_id, page_size) ==
  IF GqlFails(server, 1) THEN GqlFailure(server)
  ELSE IF ~server.exists
       THEN IF GqlFails(server, 2) THEN GqlFailure(server)
            ELSE Raise("RuntimeError",
                       <<"Board ", board_id, " returned no data. ",
                         "Check the board ID and that your API token has access to it.">>)
  ELSE LET pages == FetchPages(server, page_size, 1, 2)
       IN  IF pages.raised # "" THEN pages
           ELSE Return([cols |-> IF pages.value = <<>> THEN <<>> ELSE server.items.cols,
                        rows |-> pages.value])

(***************************************************************************)
(* agent.py: the tool executor.                                            *)
(***************************************************************************)
ROW_CAP == 30

BoardKeys == {"deals", "workorders"}

\* A prefix that keeps every row.
PrefixUncapped(rows, k) == rows

\* rows[:k] of a list of row dicts.
Prefix(rows, k) ==
  [rows EXCEPT !.rows = SubSeq(rows.rows, 1, IF Len(rows.rows) < k THEN Len(rows.rows) ELSE k)]

\* The payload of get_board_items for the cleaned rows of a board.
ItemsPayload(board, rows) ==
  LET truncated_rows == Prefix(rows, ROW_CAP)
  IN  [board         |-> board,
       total_rows    |-> Len(rows.rows),
       returned_rows |-> Len(truncated_rows.rows),
       note          |-> "Output truncated to 30 rows due to API token limits",
       rows          |-> truncated_rows]

\* args["board"] and board_map[...]: the KeyError either lookup raises.
BoardKeyError(a) ==
  IF "board" \notin DOMAIN a THEN Raise("KeyError", <<"'", "board", "'">>)
  ELSE IF a.board \notin BoardKeys THEN Raise("KeyError", <<"'", a.board, "'">>)
  ELSE Return(<<>>)

board_map(a, deals_board_id, wo_board_id) ==
  IF a.board = "deals" THEN deals_board_id ELSE wo_board_id

\* Whether _run_tool gets as far as a request to the server.
ReachesServer(name, a, monday_key, env_key) ==
  /\ Truthy(MondayClientKey(monday_key, env_key))
  /\ name \in {"get_board_columns", "get_board_items"}
  /\ BoardKeyError(a).raised = ""

\* The rest of get_board_items once the board's rows are cleaned.
CleanedItems(board, cleaned) ==
  IF cleaned.raised
  THEN Raise("AttributeError", <<"Can only use .str accessor with string values!">>)
  ELSE Return(ItemsPayload(board, ToRecords(cleaned.df)))

\* The rest of get_board_items once get_all_items has returned or raised.
FetchedItems(board, raw) ==
  IF raw.raised # "" THEN raw
  ELSE CleanedItems(board, IF board = "deals" THEN clean_deals(raw.value)
                           ELSE clean_workorders(raw.value))

_run_tool(name, a, monday_key, deals_board_id, wo_board_id, env_key, server) ==
  IF ~Truthy(MondayClientKey(monday_key, env_key))
  THEN Raise("ValueError", <<"Monday API key is required">>)
  ELSE IF name = "get_board_columns"
       THEN IF BoardKeyError(a).raised # "" THEN BoardKeyError(a)
            ELSE get_columns(server, board_map(a, deals_board_id, wo_board_id))
  ELSE IF name = "get_board_items"
       THEN IF BoardKeyError(a).raised # "" THEN BoardKeyError(a)
            ELSE FetchedItems(a.board,
                              get_all_items(server, board_map(a, deals_board_id, wo_board_id),
                                            DefaultPageSize))
  ELSE Return([error |-> <<"Unknown tool: ", name>>])

(***************************************************************************)
(* The environment of one query: who calls it and with which credentials,  *)
(* what the model replies, and what the Monday.com server answers.         *)
(***************************************************************************)
\* The free tool calls of a query: the model draws its first MaxFreeCalls
\* tool calls freely from Requests, at most MaxCallsPerRound a round; once
\* they are spent it only repeats ProbeRequest, or answers.
MaxFreeCalls == 2

MaxCallsPerRound == 2

\* The number of items of the large deals board, above ROW_CAP.
BigRows == 31

\* tc.function.arguments: a JSON text, by what json.loads makes of it: an
\* object (a dict), another JSON value (array, number, string, null), a text
\* that is no JSON ("invalid"), or no text at all (None: "absent").
JsonObject(obj) == [kind |-> "object", obj |-> obj]

JsonOther(kind) == [kind |-> kind, obj |-> <<>>]

Requests ==
  { [name |-> "get_board_items",
     arguments |-> JsonObject([board |-> "deals", reason |-> "pipeline overview"])],
    [name |-> "get_board_items",   arguments |-> JsonObject([board |-> "workorders"])],
    [name |-> "get_board_items",   arguments |-> JsonObject([board |-> "invoices"])],
    [name |-> "get_board_items",   arguments |-> JsonObject(<<>>)],
    [name |-> "get_board_items",   arguments |-> JsonOther("invalid")],
    [name |-> "get_board_items",   arguments |-> JsonOther("array")],
    [name |-> "get_board_items",   arguments |-> JsonOther("null")],
    [name |-> "get_board_items",   arguments |-> JsonOther("absent")],
    [name |-> "get_board_columns", arguments |-> JsonObject([board |-> "deals"])],
    [name |-> "delete_board",      arguments |-> JsonObject([board |-> "deals"])] }

ProbeRequest == [name |-> "export_board", arguments |-> JsonObject([board |-> "deals"])]

NoContent == [some |-> FALSE, text |-> ""]

Content(text) == [some |-> TRUE, text |-> text]

AnswerContents == {NoContent, Content("Pipeline: 2 open deals.")}

ModelFailures == {"GroqAuthError", "GroqRateLimit", "APIConnectionError"}

DEALS_ID == "1001"

WO_ID == "2002"

DealTitles == << <<"D","e","a","l"," ","S","t","a","t","u","s">>, <<"D","e","a","l"," ","S","t","a","g","e">>, <<"S","e","c","t","o","r","/","s","e","r","v","i","c","e">>, <<"M","a","s","k","e","d"," ","D","e","a","l"," ","v","a","l","u","e">> >>

WoTitles == << <<"E","x","e","c","u","t","i","o","n"," ","S","t","a","t","u","s">>, <<"S","e","c","t","o","r">>, <<"A","m","o","u","n","t"," ","i","n"," ","R","u","p","e","e","s"," ","(","E","x","c","l"," ","o","f"," ","G","S","T",")"," ","(","M","a","s","k","e","d",")">> >>

\* Three deals: a header-repeat row, a deal at stage A worth 50,00,000 rupees,
\* and a deal without a sector.
DealsSmall ==
  [cols |-> << <<"_","i","d">>, <<"_","n","a","m","e">> >> \o DealTitles,
   rows |-> << << Str(<<"1","1">>), Str(<<"D","e","a","l"," ","N","a","m","e">>), Str(<<"D","e","a","l"," ","S","t","a","t","u","s">>), Str(<<"D","e","a","l"," ","S","t","a","g","e">>),
                  Str(<<"S","e","c","t","o","r","/","s","e","r","v","i","c","e">>), Str(<<"M","a","s","k","e","d"," ","D","e","a","l"," ","v","a","l","u","e">>) >>,
               << Str(<<"1","2">>), Str(<<"A","l","p","h","a">>), Str(<<"O","p","e","n">>), Str(<<"a","."," ","L","e","a","d"," ","G","e","n","e","r","a","t","e","d">>),
                  Str(<<"m","i","n","i","n","g">>), Str(<<"rupee","5","0",",","0","0",",","0","0","0">>) >>,
               << Str(<<"1","3">>), Str(<<"B","e","t","a">>), Str(<<"w","o","n">>), Str(<<"g","."," ","P","r","o","j","e","c","t"," ","W","o","n">>),
                  None, None >> >>]

\* BigRows open deals and, among them, one header-repeat row.
DealsBig ==
  [cols |-> << <<"_","i","d">>, <<"_","n","a","m","e">> >> \o DealTitles,
   rows |-> [i \in 1..(BigRows + 1) |->
               IF i = 2
               THEN << Str(NatDigits(100 + i)), Str(<<"D","e","a","l"," ","N","a","m","e">>), Str(<<"D","E","A","L"," ","S","T","A","T","U","S">>),
                       None, None, None >>
               ELSE << Str(NatDigits(100 + i)), Str(<<"D","e","a","l">>), Str(<<"O","p","e","n">>),
                       None, None, None >>]]

\* A deals board of one item more than a page of get_all_items holds.
DealsPaged ==
  [cols |-> << <<"_","i","d">>, <<"_","n","a","m","e">> >> \o DealTitles,
   rows |-> [i \in 1..(DefaultPageSize + 1) |->
               << Str(NatDigits(1000 + i)), Str(<<"D","e","a","l">>), Str(<<"O","p","e","n">>),
                  None, None, None >>]]

WoSmall ==
  [cols |-> << <<"_","i","d">>, <<"_","n","a","m","e">> >> \o WoTitles,
   rows |-> << << Str(<<"2","1">>), Str(<<"A","l","p","h","a">>), Str(<<"C","o","m","p","l","e","t","e","d">>), Str(<<"M","i","n","i","n","g">>),
                  Str(<<"1",",","0","0","0",".","5","0">>) >>,
               << Str(<<"2","2">>), Str(<<"B","e","t","a">>), Str(<<"O","n","g","o","i","n","g">>), Str(<<"S","e","c","t","o","r">>), None >> >>]

NoItems(titles) == [cols |-> << <<"_","i","d">>, <<"_","n","a","m","e">> >> \o titles, rows |-> <<>>]

Board(name, titles, items) ==
  [exists |-> TRUE, name |-> name, titles |-> titles, items |-> items,
   failAt |-> 0, failure |-> "none"]

Failing(server, n, failure) == [server EXCEPT !.failAt = n, !.failure = failure]

NoBoard ==
  [exists |-> FALSE, name |-> "", titles |-> <<>>, items |-> EmptyFrame,
   failAt |-> 0, failure |-> "none"]

\* What the server may answer to a call about a board id.
Servers(board_id) ==
  IF board_id = DEALS_ID
  THEN { Board("Deal Funnel", DealTitles, DealsSmall),
         Board("Deal Funnel", DealTitles, DealsBig),
         Failing(Board("Deal Funnel", DealTitles, DealsSmall), 2, "timeout"),
         Failing(Board("Deal Funnel", DealTitles, DealsPaged), 3, "http"),
         NoBoard }
  ELSE { Board("Work Order Tracker", WoTitles, WoSmall),
         Board("Work Order Tracker", WoTitles, NoItems(WoTitles)),
         Failing(Board("Work Order Tracker", WoTitles, WoSmall), 1, "http") }

\* The callers of BIAgent.query: the /api/query endpoint of main.py, with the
\* X-Monday-Key header and the environment it resolves its credentials from,
\* and the script run_test.py, which reads them from the environment alone.
\* The board ids are given as resolved ("": not set anywhere).
Configs ==
  { [caller |-> "endpoint", x_monday_key |-> Str(<<" ","t","o","k","-","1"," ">>), env_monday_key |-> None,
     groq_key |-> Str(<<"g","s","k">>), deals_board_id |-> DEALS_ID, wo_board_id |-> WO_ID,
     history |-> << [role |-> "user", content |-> "Which sector leads?"],
                    [role |-> "assistant", content |-> "Mining leads."] >>],
    [caller |-> "endpoint", x_monday_key |-> None, env_monday_key |-> Str(<<" ">>),
     groq_key |-> Str(<<"g","s","k">>), deals_board_id |-> DEALS_ID, wo_board_id |-> WO_ID, history |-> <<>>],
    [caller |-> "endpoint", x_monday_key |-> Str(<<"t","o","k","-","1">>), env_monday_key |-> None,
     groq_key |-> None, deals_board_id |-> DEALS_ID, wo_board_id |-> WO_ID, history |-> <<>>],
    [caller |-> "endpoint", x_monday_key |-> Str(<<"t","o","k","-","1">>), env_monday_key |-> None,
     groq_key |-> Str(<<"g","s","k">>), deals_board_id |-> DEALS_ID, wo_board_id |-> "", history |-> <<>>],
    [caller |-> "script", x_monday_key |-> None, env_monday_key |-> None,
     groq_key |-> Str(<<"g","s","k">>), deals_board_id |-> DEALS_ID, wo_board_id |-> WO_ID, history |-> <<>>] }

(***************************************************************************)
(* The state of one query.                                                 *)
(***************************************************************************)
VARIABLES
  config,            \* the caller of the query and its credentials
  pc,                \* "start", "model" (the head of the while loop), "tool"
                     \* (the head of the for loop), "await_tool" (in _run_tool),
                     \* "done"
  messages,          \* query: the message history sent to the model
  trace,             \* query: the trace
  loop_count,        \* query: the rounds begun
  fetched_deals_df,  \* query: the deals frame kept for the quality report
  fetched_wo_df,     \* query: the work-order frame kept for the quality report
  tool_calls,        \* query: msg.tool_calls, from the call being executed on
  args,              \* query: the arguments of the call being executed
  model_calls,       \* the calls of chat.completions.create made so far
  free_calls,        \* the free tool calls the model has requested so far
  msg,               \* query: response.choices[0].message of the last model call
  finish,            \* query: response.choices[0].finish_reason of that call
  response,          \* what query returned or raised
  outcome,           \* what the caller made of it
  input,             \* the function applied on its own, and its argument
  output             \* what the function returned

\* The state of a function applied on its own, and the state of a query.
data_vars == << input, output >>

query_vars == << config, pc, messages, trace, loop_count, fetched_deals_df, fetched_wo_df,
                 tool_calls, args, model_calls, free_calls, msg, finish, response, outcome >>

vars == << query_vars, data_vars >>

SYSTEM == "You are a senior BI analyst for Skylark Drones, ..."

UserMessage == "How is our pipeline looking?"

MAX_LOOPS == 8

\* Both texts begin with a warning sign.
LOOP_LIMIT_ANSWER == "(!) Agent loop limit reached. Please try a more specific question."

NO_RESPONSE == "(!) No response generated."

\* fetched_deals_df = None, and a frame kept.
NotFetched == [fetched |-> FALSE, df |-> EmptyFrame]

Fetched(df) == [fetched |-> TRUE, df |-> df]

NoQuality == [some |-> FALSE, report |-> <<>>]

Quality(report) == [some |-> TRUE, report |-> report]

NoResponse == [state |-> "none", answer |-> "", quality |-> NoQuality, exc |-> ""]

Returned(answer, quality) ==
  [state |-> "returned", answer |-> answer, quality |-> quality, exc |-> ""]

Raised(exc) == [state |-> "raised", answer |-> "", quality |-> NoQuality, exc |-> exc]

NoOutcome == [kind |-> "none", status |-> 0, detail |-> ""]

Http(status, detail) == [kind |-> "http", status |-> status, detail |-> detail]

File(detail) == [kind |-> "file", status |-> 0, detail |-> detail]

\* _event, without its wall-clock timestamp.
_event(kind, content, source) == [type |-> kind, source |-> source, content |-> content]

\* json.dumps(result, default=str): the JSON text of a payload.
Dumps(payload) == [json |-> payload]

(***************************************************************************)
(* main.py: the /api/query endpoint, and run_test.py.                      *)
(***************************************************************************)
\* (header_val or "").strip() or os.getenv(env_key, "").strip()
_resolve(header_val, env_val) ==
  LET h == Strip(IF Truthy(header_val) THEN header_val.s ELSE <<>>)
      e == Strip(IF Truthy(env_val) THEN env_val.s ELSE <<>>)
  IN  IF h # <<>> THEN Str(h) ELSE Str(e)

\* The monday_key the caller constructs BIAgent with.
AgentMondayKey ==
  IF config.caller = "endpoint"
  THEN _resolve(config.x_monday_key, config.env_monday_key)
  ELSE config.env_monday_key

\* os.getenv("MONDAY_API_KEY", "")
EnvMondayKey == IF config.env_monday_key.t = "none" THEN Str(<<>>) ELSE config.env_monday_key

\* The HTTPException the endpoint raises before it constructs the agent, or
\* NoOutcome when it goes on.
EndpointCheck ==
  IF ~Truthy(AgentMondayKey) THEN Http(400, "Monday.com API key is required")
  ELSE IF ~Truthy(config.groq_key) THEN Http(500, "GROQ_API_KEY is not set on the server")
  ELSE IF config.deals_board_id = "" \/ config.wo_board_id = ""
       THEN Http(400, "Both board IDs are required (Deals + Work Orders)")
  ELSE NoOutcome

\* What the caller makes of query's return or exception: the endpoint's
\* try/except, and the script's.
CallerOutcome(resp) ==
  IF config.caller = "endpoint"
  THEN IF resp.state = "returned" THEN Http(200, "result")
       ELSE IF resp.exc = "GroqAuthError"
            THEN Http(401, "Invalid Groq API key - check GROQ_API_KEY")
       ELSE IF resp.exc = "GroqRateLimit"
            THEN Http(429, "Groq rate limit hit - please wait a moment and retry")
       ELSE IF resp.exc = "TimeoutException"
            THEN Http(504, "Monday.com API timed out - try again")
       ELSE Http(500, resp.exc)
  ELSE IF resp.state = "returned" THEN File("--- Answer ---") ELSE File("--- Error ---")

\* msg and finish before the first call of the model, and the input of a
\* function when none is applied on its own.
NoMessage == [content |-> NoContent, tool_calls |-> <<>>]

NoInput == [fn |-> "none"]

NoOutput == [applied |-> FALSE]

Init ==
  /\ input = NoInput
  /\ output = NoOutput
  /\ msg = NoMessage
  /\ finish = ""
  /\ config \in Configs
  /\ pc = "start"
  /\ messages = <<>>
  /\ trace = <<>>
  /\ loop_count = 0
  /\ fetched_deals_df = NotFetched
  /\ fetched_wo_df = NotFetched
  /\ tool_calls = <<>>
  /\ args = <<>>
  /\ model_calls = 0
  /\ free_calls = 0
  /\ response = NoResponse
  /\ outcome = NoOutcome

\* The endpoint refuses the request: a credential or a board id is missing.
EndpointRejects ==
  /\ pc = "start"
  /\ config.caller = "endpoint"
  /\ EndpointCheck # NoOutcome
  /\ outcome' = EndpointCheck
  /\ pc' = "done"
  /\ UNCHANGED << data_vars, msg, finish, config, messages, trace, loop_count, fetched_deals_df, fetched_wo_df,
                  tool_calls, args, model_calls, free_calls, response >>

\* query, up to its while loop: the messages are built.
BeginQuery ==
  /\ pc = "start"
  /\ config.caller = "endpoint" => EndpointCheck = NoOutcome
  /\ messages' = << [role |-> "system", content |-> SYSTEM] >>
                 \o [i \in 1..Len(config.history) |->
                       [role |-> config.history[i].role, content |-> config.history[i].content]]
                 \o << [role |-> "user", content |-> UserMessage] >>
  /\ pc' = "model"
  /\ UNCHANGED << data_vars, msg, finish, config, trace, loop_count, fetched_deals_df, fetched_wo_df,
                  tool_calls, args, model_calls, free_calls, response, outcome >>

(***************************************************************************)
(* agent.py: BIAgent.query.                                                *)
(***************************************************************************)
\* A loop that admits one round more than MAX_LOOPS.
LoopGuardOneMore(n) == n <= MAX_LOOPS

\* while loop_count < MAX_LOOPS
LoopGuard(n) == n < MAX_LOOPS

\* if finish == "stop" or not msg.tool_calls
Finalizes(reply) == reply.finish = "stop" \/ reply.tool_calls = <<>>

Reply(content, reason, calls) == [content |-> content, finish |-> reason, tool_calls |-> calls]

\* msg = response.choices[0].message
Message(reply) == [content |-> reply.content, tool_calls |-> reply.tool_calls]

\* The tool calls the model may request in the round: free ones while the
\* query has free calls left, the probe after that.  The ids are the model's.
ToolCallLists(round) ==
  LET left == MaxFreeCalls - free_calls
      most == IF left < MaxCallsPerRound THEN left ELSE MaxCallsPerRound
      reqs == IF left > 0 THEN UNION {[1..n -> Requests] : n \in 1..most}
              ELSE {<<ProbeRequest>>}
  IN  {[i \in 1..Len(rs) |->
          [id |-> 10 * round + i, name |-> rs[i].name, arguments |-> rs[i].arguments]] :
       rs \in reqs}

\* What the model may reply in the round.
Replies(round) ==
  {Reply(c, "stop", <<>>) : c \in AnswerContents}
    \cup {Reply(Content("Partial answer"), "length", <<>>)}
    \cup {Reply(NoContent, f, tcs) : f \in {"tool_calls", "stop"}, tcs \in ToolCallLists(round)}

\* A quality report computed whether or not a board was fetched.
FinalQualityAlways == Quality(quality_report(fetched_deals_df.df, fetched_wo_df.df))

\* The quality report of the final answer.
FinalQuality ==
  IF fetched_deals_df.fetched \/ fetched_wo_df.fetched
  THEN Quality(quality_report(fetched_deals_df.df, fetched_wo_df.df))
  ELSE NoQuality

\* The model is called and its reply ends the query: the final answer.
ModelAnswers ==
  /\ pc = "model"
  /\ LoopGuard(loop_count)
  /\ \E reply \in Replies(loop_count + 1) :
       /\ Finalizes(reply)
       /\ msg' = Message(reply)
       /\ finish' = reply.finish
       /\ LET answer == IF reply.content.some /\ reply.content.text # ""
                        THEN reply.content.text ELSE NO_RESPONSE
              resp   == Returned(answer, FinalQuality)
          IN  /\ trace' = Append(trace, _event("answer", [text |-> answer], "Groq->Agent"))
              /\ response' = resp
              /\ outcome' = CallerOutcome(resp)
  /\ loop_count' = loop_count + 1
  /\ model_calls' = model_calls + 1
  /\ pc' = "done"
  /\ UNCHANGED << data_vars, config, messages, fetched_deals_df, fetched_wo_df, tool_calls, args,
                  free_calls >>

\* The model is called and requests tools: the assistant turn joins the history.
ModelRequestsTools ==
  /\ pc = "model"
  /\ LoopGuard(loop_count)
  /\ \E reply \in Replies(loop_count + 1) :
       /\ ~Finalizes(reply)
       /\ msg' = Message(reply)
       /\ finish' = reply.finish
       /\ messages' = Append(messages,
            [role       |-> "assistant",
             content    |-> IF reply.content.some THEN reply.content.text ELSE "",
             tool_calls |-> [i \in 1..Len(reply.tool_calls) |->
                               [id       |-> reply.tool_calls[i].id,
                                type     |-> "function",
                                function |-> [name      |-> reply.tool_calls[i].name,
                                              arguments |-> reply.tool_calls[i].arguments]]]])
       /\ tool_calls' = reply.tool_calls
       /\ free_calls' = IF free_calls < MaxFreeCalls
                        THEN free_calls + Len(reply.tool_calls) ELSE free_calls
  /\ loop_count' = loop_count + 1
  /\ model_calls' = model_calls + 1
  /\ pc' = "tool"
  /\ UNCHANGED << data_vars, config, trace, fetched_deals_df, fetched_wo_df, args, response, outcome >>

\* The call of the model raises: query raises with it.
ModelRaises ==
  /\ pc = "model"
  /\ LoopGuard(loop_count)
  /\ \E exc \in ModelFailures :
       /\ response' = Raised(exc)
       /\ outcome' = CallerOutcome(Raised(exc))
  /\ loop_count' = loop_count + 1
  /\ model_calls' = model_calls + 1
  /\ pc' = "done"
  /\ UNCHANGED << data_vars, msg, finish, config, messages, trace, fetched_deals_df, fetched_wo_df, tool_calls,
                  args, free_calls >>

\* A loop-limit response that carries the quality report of the frames kept.
LoopLimitResponseWithQuality == Returned(LOOP_LIMIT_ANSWER, FinalQuality)

\* The return after the while loop: the fixed answer, and quality None.
LoopLimitResponse == Returned(LOOP_LIMIT_ANSWER, NoQuality)

\* The while loop ends: the loop-limit response.
LoopLimit ==
  /\ pc = "model"
  /\ ~LoopGuard(loop_count)
  /\ response' = LoopLimitResponse
  /\ outcome' = CallerOutcome(LoopLimitResponse)
  /\ pc' = "done"
  /\ UNCHANGED << data_vars, msg, finish, config, messages, trace, loop_count, fetched_deals_df, fetched_wo_df,
                  tool_calls, args, model_calls, free_calls >>

\* json.loads without the except clause of the loop: text that is no JSON
\* raises as well.
json_loads_uncaught(arguments) ==
  IF arguments.kind = "object" THEN Return(arguments.obj)
  ELSE Raise("JSONDecodeError", <<"Expecting value: line 1 column 1 (char 0)">>)

\* json.loads(tc.function.arguments), with the except clause of the loop: the
\* value it leaves in args, or the exception that escapes the clause.
json_loads(arguments) ==
  IF arguments.kind = "object" THEN Return(arguments.obj)
  ELSE IF arguments.kind = "invalid" THEN Return(<<>>)
  ELSE IF arguments.kind = "absent"
       THEN Raise("TypeError", <<"the JSON object must be str, bytes or bytearray, not NoneType">>)
  ELSE Raise("AttributeError", <<"'", arguments.kind, "' object has no attribute 'get'">>)

\* args.get(key, default)
Get(a, key, default) == IF key \in DOMAIN a THEN a[key] ELSE default

\* A tool call begins: its arguments are parsed and the tool_call entry is
\* appended.
BeginToolCall ==
  /\ pc = "tool"
  /\ LET tc     == Head(tool_calls)
         parsed == json_loads(tc.arguments)
     IN  /\ parsed.raised = ""
         /\ args' = parsed.value
         /\ trace' = Append(trace,
              _event("tool_call",
                     [tool   |-> tc.name,
                      board  |-> Get(parsed.value, "board", "emdash"),
                      reason |-> Get(parsed.value, "reason", ""),
                      input  |-> parsed.value],
                     "Agent->Monday.com"))
  /\ pc' = "await_tool"
  /\ UNCHANGED << data_vars, msg, finish, config, messages, loop_count, fetched_deals_df, fetched_wo_df, tool_calls,
                  model_calls, free_calls, response, outcome >>

\* The arguments of a tool call are JSON but no object, or no text at all:
\* the exception is raised outside the try blocks of the loop, and query
\* raises with it.
ToolArgsAbort ==
  /\ pc = "tool"
  /\ LET parsed == json_loads(Head(tool_calls).arguments)
     IN  /\ parsed.raised # ""
         /\ response' = Raised(parsed.raised)
         /\ outcome' = CallerOutcome(Raised(parsed.raised))
  /\ pc' = "done"
  /\ UNCHANGED << data_vars, msg, finish, config, messages, trace, loop_count, fetched_deals_df, fetched_wo_df,
                  tool_calls, args, model_calls, free_calls >>

\* clean_deals(rows) if rows else pd.DataFrame(), and the same of work orders.
Reclean(board, rows) ==
  IF rows.rows = <<>> THEN Cleaned(EmptyFrame)
  ELSE IF board = "deals" THEN clean_deals(rows) ELSE clean_workorders(rows)

\* The try block of a tool call once _run_tool has returned or raised: the
\* cleaning of the rows of a get_board_items result may raise in its turn.
Captured(name, a, result) ==
  IF result.raised # "" THEN result
  ELSE IF name = "get_board_items" /\ "rows" \in DOMAIN result.value
            /\ Reclean(Get(a, "board", ""), result.value.rows).raised
       THEN Raise("AttributeError", <<"Can only use .str accessor with string values!">>)
  ELSE result

\* The try block of a tool call: what it leaves in result, or its exception.
TryTool(name, a, server) ==
  Captured(name, a, _run_tool(name, a, AgentMondayKey, config.deals_board_id,
                              config.wo_board_id, EnvMondayKey, server))

\* A tool_result entry that names the board where the tool belongs.
ToolResultEventOfBoard(name, a, result) ==
  _event("tool_result", [tool |-> Get(a, "board", ""), result |-> result], "Monday.com->Agent")

\* The trace entry of a tool call that returned.
ToolResultEvent(name, a, result) ==
  IF name = "get_board_items" /\ "rows" \in DOMAIN result
  THEN _event("tool_result",
              [tool         |-> name,
               board        |-> Get(a, "board", ""),
               rows_fetched |-> result.total_rows,
               columns      |-> IF result.rows.rows # <<>> THEN result.rows.cols ELSE <<>>,
               sample       |-> Prefix(result.rows, 2)],
              "Monday.com->Agent")
  ELSE IF name = "get_board_columns" /\ "columns" \in DOMAIN result
  THEN _event("tool_result",
              [tool          |-> name,
               board         |-> Get(a, "board", ""),
               board_name    |-> result.board_name,
               columns_found |-> Len(result.columns),
               columns       |-> result.columns],
              "Monday.com->Agent")
  ELSE _event("tool_result", [tool |-> name, result |-> result], "Monday.com->Agent")

\* A tool_error entry that leaves the error text out.
ToolErrorEventWithoutText(name, err_msg) ==
  _event("tool_error", [tool |-> name], "Error")

\* The trace entry of a tool call that raised.
ToolErrorEvent(name, err_msg) ==
  _event("tool_error", [tool |-> name, error |-> err_msg], "Error")

\* A tool message that is not keyed to its call.
ToolMessageUnkeyed(id, result_str) == [role |-> "tool", tool_call_id |-> 0, content |-> result_str]

\* The message that carries the outcome of a tool call back to the model.
ToolMessage(id, result_str) == [role |-> "tool", tool_call_id |-> id, content |-> result_str]

\* The answers of the server that a tool call may meet: those of the board it
\* asks for, when it gets as far as a request.
Answers(name, a) ==
  IF ReachesServer(name, a, AgentMondayKey, EnvMondayKey)
  THEN Servers(board_map(a, config.deals_board_id, config.wo_board_id))
  ELSE {NoBoard}

\* A frame that is kept from the first fetch of its board on.
KeepFirst(board, kept, name, a, tried) ==
  IF /\ ~kept.fetched
     /\ tried.raised = "" /\ name = "get_board_items" /\ "rows" \in DOMAIN tried.value
     /\ Get(a, "board", "") = board
  THEN Fetched(Reclean(board, tried.value.rows).df)
  ELSE kept

\* fetched_deals_df and fetched_wo_df after a tool call: the rows of a
\* get_board_items result, cleaned again, replace the frame kept for the
\* board; any other outcome leaves it.
Keep(board, kept, name, a, tried) ==
  IF /\ tried.raised = "" /\ name = "get_board_items" /\ "rows" \in DOMAIN tried.value
     /\ Get(a, "board", "") = board
  THEN Fetched(Reclean(board, tried.value.rows).df)
  ELSE kept

\* A tool call ends: the tool is run against the server, the frames and the
\* trace are updated, and the tool message is appended.
FinishToolCall ==
  /\ pc = "await_tool"
  /\ LET tc == Head(tool_calls)
     IN  \E server \in Answers(tc.name, args) :
         \E tried \in {TryTool(tc.name, args, server)} :
               /\ fetched_deals_df' = Keep("deals", fetched_deals_df, tc.name, args, tried)
               /\ fetched_wo_df' = Keep("workorders", fetched_wo_df, tc.name, args, tried)
               /\ trace' = Append(trace,
                    IF tried.raised = "" THEN ToolResultEvent(tc.name, args, tried.value)
                    ELSE ToolErrorEvent(tc.name, tried.text))
               /\ messages' = Append(messages,
                    ToolMessage(tc.id, IF tried.raised = "" THEN Dumps(tried.value)
                                       ELSE Dumps([error |-> tried.text])))
  /\ tool_calls' = Tail(tool_calls)
  /\ pc' = IF Tail(tool_calls) = <<>> THEN "model" ELSE "tool"
  /\ UNCHANGED << data_vars, msg, finish, config, args, loop_count, model_calls, free_calls, response, outcome >>

Next ==
  \/ EndpointRejects
  \/ BeginQuery
  \/ ModelAnswers
  \/ ModelRequestsTools
  \/ ModelRaises
  \/ LoopLimit
  \/ BeginToolCall
  \/ ToolArgsAbort
  \/ FinishToolCall

Spec == Init /\ [][Next]_vars

(***************************************************************************)
(* The properties of BIAgent.query and of the tool executor.               *)
(***************************************************************************)
\* The rounds in which the model requested tools: the assistant turns of the
\* message history that this query appended (those of the history it was
\* given carry no tool calls).
ToolRounds ==
  Cardinality({i \in DOMAIN messages :
                 messages[i].role = "assistant" /\ "tool_calls" \in DOMAIN messages[i]})

\* query has been called, and query has ended: it returned a response, or
\* raised to its caller.
QueryBegan == messages # <<>>

QueryEnded == response.state \in {"returned", "raised"}

\* What is left of a query: the rounds the while loop may still begin, the
\* tool calls of the round still to be executed, and the steps left of the
\* current one.
Variant ==
  CASE pc = "start"      -> <<MAX_LOOPS + 1, 0, 0>>
    [] pc = "model"      -> <<MAX_LOOPS - loop_count, 0, 2>>
    [] pc = "tool"       -> <<MAX_LOOPS - loop_count, Len(tool_calls), 1>>
    [] pc = "await_tool" -> <<MAX_LOOPS - loop_count, Len(tool_calls), 0>>
    [] pc = "done"       -> <<0, 0, 0>>

\* The lexicographic order of the triples of naturals, which is well-founded.
LexLess(a, b) ==
  \/ a[1] < b[1]
  \/ a[1] = b[1] /\ a[2] < b[2]
  \/ a[1] = b[1] /\ a[2] = b[2] /\ a[3] < b[3]

\* C1, as the code has it: query makes at most 8 calls of the model and
\* terminates, whatever the model replies and whatever the tools do: every
\* step of it, a call of the model or of a tool returning or raising, takes
\* what is left of the query down a well-founded order, and where nothing is
\* left query has ended, by returning a response or by raising to its caller.
C1_TerminatesWithinLoopLimit ==
  /\ [](model_calls <= MAX_LOOPS)
  /\ [](Variant \in Nat \X Nat \X Nat)
  /\ [][LexLess(Variant', Variant)]_vars
  /\ []((pc = "done" /\ QueryBegan) => QueryEnded)
  /\ [](QueryEnded => pc = "done")

\* C1 as stated: a query that has ended has ended with a response.
C1_AlwaysEndsWithResponse == (pc = "done" /\ QueryBegan) => response.state = "returned"

\* The model requested tools in every one of the 8 rounds, and query ended
\* after its 8th call of the model.
C1_Witness ==
  /\ pc = "done"
  /\ ToolRounds = MAX_LOOPS
  /\ model_calls = MAX_LOOPS
  /\ QueryEnded

Call == Head(tool_calls)

\* Where the loop goes on after the tool call being executed: its next tool
\* call, or the next call of the model.
LoopGoesOn ==
  /\ response' = NoResponse
  /\ tool_calls' = Tail(tool_calls)
  /\ pc' = IF Len(tool_calls) > 1 THEN "tool" ELSE "model"

\* C3: when the execution of a tool call raises, query does not abort: a
\* tool_error entry with the error text is appended to the trace, a tool
\* message for the id of the call whose content is the JSON object
\* {"error": text} is appended to the history, and the loop goes on with the
\* remaining tool calls and the next call of the model.  (When it returns,
\* the entry appended is a tool_result.)
C3_ToolExceptionsAreFedBack ==
  [][pc = "await_tool" =>
       \E server \in Answers(Call.name, args) :
         \E tried \in {TryTool(Call.name, args, server)} :
           /\ LoopGoesOn
           /\ Len(trace') = Len(trace) + 1
           /\ Len(messages') = Len(messages) + 1
           /\ SubSeq(trace', 1, Len(trace)) = trace
           /\ SubSeq(messages', 1, Len(messages)) = messages
           /\ tried.raised # "" =>
                /\ trace'[Len(trace')] =
                     [type |-> "tool_error", source |-> "Error",
                      content |-> [tool |-> Call.name, error |-> tried.text]]
                /\ messages'[Len(messages')] =
                     [role |-> "tool", tool_call_id |-> Call.id,
                      content |-> [json |-> [error |-> tried.text]]]
           /\ tried.raised = "" => trace'[Len(trace')].type = "tool_result"]_vars

\* The error texts of a transport failure: a timeout, and an HTTP status
\* other than 200.
TransportErrors ==
  {<<"The read operation timed out">>, <<"Monday.com HTTP 500: ", "Internal Server Error">>}

\* The tool_error entries of the trace.
ToolErrors == {i \in DOMAIN trace : trace[i].type = "tool_error"}

\* A tool call met a timeout, its error went back to the model as the tool
\* message, and the model was called again and answered.
C3_Witness ==
  /\ pc = "done"
  /\ response.state = "returned"
  /\ model_calls >= 2
  /\ \E i \in ToolErrors : trace[i].content.error = <<"The read operation timed out">>
  /\ \E j \in DOMAIN messages :
        /\ messages[j].role = "tool"
        /\ messages[j].content = [json |-> [error |-> <<"The read operation timed out">>]]

\* C4 as stated, for the failures of the data source: a query of the endpoint
\* in which a request to Monday.com timed out or met an HTTP error does not
\* end as a normal answer (status 200) but as a failure of its own.
C4_DataSourceFailureSurfaces ==
  (/\ config.caller = "endpoint"
   /\ pc = "done"
   /\ \E i \in ToolErrors : trace[i].content.error \in TransportErrors)
    => (outcome.kind = "http" /\ outcome.status # 200)

\* The tools of the agent, and the tool calls the model has requested.
KnownTools == {"get_board_items", "get_board_columns"}

RequestedCalls ==
  UNION {{messages[i].tool_calls[k] : k \in DOMAIN messages[i].tool_calls} :
           i \in {j \in DOMAIN messages :
                    messages[j].role = "assistant" /\ "tool_calls" \in DOMAIN messages[j]}}

\* C5 as stated: the tool message of every call of a tool other than
\* get_board_items and get_board_columns carries the payload
\* {"error": "Unknown tool: <name>"}, and no such call raises, whatever the
\* arguments and the credentials.
C5_UnknownToolPayload ==
  /\ \A i \in ToolErrors : trace[i].content.tool \in KnownTools
  /\ \A j \in DOMAIN messages :
        messages[j].role = "tool" =>
          \A c \in RequestedCalls :
            (c.id = messages[j].tool_call_id /\ c.function.name \notin KnownTools)
              => messages[j].content = [json |-> [error |-> <<"Unknown tool: ", c.function.name>>]]

\* C6: when the arguments of a tool call are no valid JSON, the loop goes on
\* with an empty argument set: the tool_call entry appended to the trace has
\* the empty input, and the tool is then executed (query does not end).
C6_InvalidJsonBecomesEmptyArgs ==
  [][(pc = "tool" /\ Call.arguments.kind = "invalid") =>
       /\ pc' = "await_tool"
       /\ response' = NoResponse
       /\ tool_calls' = tool_calls
       /\ DOMAIN args' = {}
       /\ trace' = Append(trace,
            [type |-> "tool_call", source |-> "Agent->Monday.com",
             content |-> [tool |-> Call.name, board |-> "emdash", reason |-> "",
                          input |-> <<>>]])]_vars

\* A call with arguments that are no JSON was executed with the empty
\* argument set, and the query went on to its answer.
C6_Witness ==
  /\ pc = "done"
  /\ response.state = "returned"
  /\ \E c \in RequestedCalls : c.function.arguments.kind = "invalid"
  /\ \E i \in DOMAIN trace :
        /\ trace[i].type = "tool_call"
        /\ DOMAIN trace[i].content.input = {}
        /\ i < Len(trace)
        /\ trace[i + 1].type = "tool_error"

\* The smaller of two numbers.
Min(a, b) == IF a < b THEN a ELSE b

\* The cleaned rows of the board that a get_board_items call fetched from the
\* server, as the list of row dicts.
CleanedRows(board, raw) ==
  ToRecords(IF board = "deals" THEN clean_deals(raw).df ELSE clean_workorders(raw).df)

\* C7: the payload of every get_board_items call that succeeds holds at most
\* 30 rows, which are the first min(N, 30) cleaned rows of the board in order,
\* with returned_rows = min(N, 30) and total_rows = N, N being the number of
\* cleaned rows of the board.
C7_PayloadIsCappedPrefix ==
  [][(/\ pc = "await_tool"
      /\ Call.name = "get_board_items"
      /\ "rows" \in DOMAIN messages'[Len(messages')].content.json) =>
       \E payload \in {messages'[Len(messages')].content.json} :
         /\ Len(payload.rows.rows) <= 30
         /\ \E server \in Answers(Call.name, args) :
              \E raw \in {get_all_items(server,
                                        board_map(args, config.deals_board_id, config.wo_board_id),
                                        DefaultPageSize)} :
                /\ raw.raised = ""
                /\ \E cleaned \in {CleanedRows(args.board, raw.value)} :
                     /\ payload.total_rows = Len(cleaned.rows)
                     /\ payload.returned_rows = Min(Len(cleaned.rows), 30)
                     /\ payload.rows.rows = SubSeq(cleaned.rows, 1, Min(Len(cleaned.rows), 30))
                     /\ payload.rows.cols = cleaned.cols]_vars

\* The payloads of the get_board_items calls that succeeded, as the tool
\* messages carry them.
ItemsPayloads ==
  {messages[j].content.json :
     j \in {k \in DOMAIN messages :
              messages[k].role = "tool" /\ "rows" \in DOMAIN messages[k].content.json}}

\* A board with more cleaned rows than the cap was fetched: 30 rows came back
\* of more; and a board with fewer was fetched whole.
C7_Witness ==
  /\ \E payload \in ItemsPayloads :
        /\ payload.total_rows > 30
        /\ payload.returned_rows = 30
        /\ Len(payload.rows.rows) = 30
  /\ \E payload \in ItemsPayloads :
        /\ payload.total_rows \in 1..29
        /\ payload.returned_rows = payload.total_rows

\* C8 as stated: the payload of get_board_items carries the truncation note
\* exactly when the board has more cleaned rows than the cap of 30.
C8_NoteOnlyWhenTruncated ==
  \A payload \in ItemsPayloads :
    ("note" \in DOMAIN payload) <=> (payload.total_rows > ROW_CAP)

\* The tool_result entries of the get_board_items calls that succeeded.
ItemsResults ==
  {i \in DOMAIN trace :
     /\ trace[i].type = "tool_result"
     /\ trace[i].content.tool = "get_board_items"
     /\ "sample" \in DOMAIN trace[i].content}

\* C9 as stated: the tool_result entry of every get_board_items call that
\* succeeds records the total row count and, apart from it, the returned row
\* count.
C9_TraceRecordsBothCounts ==
  \A i \in ItemsResults :
    /\ {"total_rows", "rows_fetched"} \cap DOMAIN trace[i].content # {}
    /\ "returned_rows" \in DOMAIN trace[i].content

\* The boards of which a get_board_items call succeeded.
BoardsFetched == {trace[i].content.board : i \in ItemsResults}

\* The text "100.0%".
FullCompleteness == <<"1", "0", "0", ".", "0", "%">>

\* C10: when query ends with an answer of the model, quality is non-null
\* exactly when a get_board_items call succeeded before in the query (calls
\* of get_board_columns and fetches that failed leave it null), and a board
\* that was not fetched is reported with 0 rows and 100% completeness.
C10_QualityIffBoardFetched ==
  (/\ pc = "done"
   /\ response.state = "returned"
   /\ trace # <<>>
   /\ trace[Len(trace)].type = "answer")
    => /\ response.quality.some <=> BoardsFetched # {}
       /\ (response.quality.some /\ "deals" \notin BoardsFetched)
            => /\ response.quality.report.deals_rows = 0
               /\ response.quality.report.deals_completeness = FullCompleteness
       /\ (response.quality.some /\ "workorders" \notin BoardsFetched)
            => /\ response.quality.report.wo_rows = 0
               /\ response.quality.report.wo_completeness = FullCompleteness

\* The deals board alone was fetched, and the model answered: the report has
\* the deals fetched and the work orders as an empty collection.
C10_Witness ==
  /\ pc = "done"
  /\ response.state = "returned"
  /\ trace[Len(trace)].type = "answer"
  /\ BoardsFetched = {"deals"}
  /\ response.quality.some
  /\ response.quality.report.deals_rows > 0
  /\ response.quality.report.wo_rows = 0
  /\ response.quality.report.wo_completeness = FullCompleteness

\* The tool messages of the get_board_items calls that succeeded for the
\* board, by their place in the history.
ItemsMessages(board) ==
  {j \in DOMAIN messages :
     /\ messages[j].role = "tool"
     /\ "rows" \in DOMAIN messages[j].content.json
     /\ messages[j].content.json.board = board}

\* The payload of the most recent of them.
LatestItems(board) ==
  messages[CHOOSE j \in ItemsMessages(board) : \A k \in ItemsMessages(board) : k <= j].content.json

\* What the most recent successful fetch of the board leaves to be retained:
\* nothing when there was none, else the rows of its payload as the agent
\* cleans them.
Retained(board) ==
  IF ItemsMessages(board) = {} THEN NotFetched
  ELSE Fetched(Reclean(board, LatestItems(board).rows).df)

\* The step appends the tool message of a get_board_items call that succeeded
\* for the board.
ItemsArrive(board) ==
  /\ Len(messages') = Len(messages) + 1
  /\ messages'[Len(messages')].role = "tool"
  /\ "rows" \in DOMAIN messages'[Len(messages')].content.json
  /\ messages'[Len(messages')].content.json.board = board

\* What a step leaves retained for the board: the rows of the payload that
\* arrives, as the agent cleans them, or what was retained before.
RetainedNext(board, kept) ==
  IF ItemsArrive(board)
  THEN Fetched(Reclean(board, messages'[Len(messages')].content.json.rows).df)
  ELSE kept

\* C11: a successful get_board_items call replaces the collection retained
\* for its board by the rows it fetched, and nothing else changes a retained
\* collection: not a fetch of the other board, not a failed fetch, not any
\* other step.  So the collection retained for a board is that of the most
\* recent successful fetch of the board, and the quality report of the final
\* answer is the report of the latest fetch of each board: its row counts are
\* those of the latest fetches, never of a union of fetches.
C11_LatestFetchIsRetained ==
  /\ [][/\ fetched_deals_df' = RetainedNext("deals", fetched_deals_df)
        /\ fetched_wo_df' = RetainedNext("workorders", fetched_wo_df)]_vars
  /\ []((pc = "done" /\ response.state = "returned" /\ response.quality.some) =>
          \E deals \in {Retained("deals")} : \E wo \in {Retained("workorders")} :
            /\ fetched_deals_df = deals
            /\ fetched_wo_df = wo
            /\ response.quality.report.deals_rows = Len(deals.df.rows)
            /\ response.quality.report.wo_rows = Len(wo.df.rows)
            /\ response.quality.report = quality_report(deals.df, wo.df))

\* The deals board was fetched twice with different results and the model
\* answered: the report counts the rows of the second fetch.
C11_Witness ==
  /\ pc = "done"
  /\ response.state = "returned"
  /\ response.quality.some
  /\ \E j \in ItemsMessages("deals") : \E k \in ItemsMessages("deals") :
        /\ j < k
        /\ \A l \in ItemsMessages("deals") : l <= k
        /\ messages[j].content.json.returned_rows # messages[k].content.json.returned_rows
        /\ response.quality.report.deals_rows = messages[k].content.json.returned_rows

\* The assistant turns with tool calls in the history (the rounds in which
\* the model requested tools), by their place, and the latest of them.
ToolTurns ==
  {i \in DOMAIN messages :
     messages[i].role = "assistant" /\ "tool_calls" \in DOMAIN messages[i]}

LastToolTurn == CHOOSE i \in ToolTurns : \A j \in ToolTurns : j <= i

\* The calls of the turn at place i that have been executed: all of them in a
\* round that is over, and in the current round those that are no longer
\* waiting in tool_calls.
Executed(i) ==
  IF i = LastToolTurn THEN Len(messages[i].tool_calls) - Len(tool_calls)
  ELSE Len(messages[i].tool_calls)

\* C12: the tool calls of a round are executed one after another in the order
\* the model listed them: the calls still waiting are the rest of the list in
\* its order, and right after the assistant turn the history holds one
\* tool message for each call executed so far, in the order of the list, each
\* carrying the id of its call, and nothing else; no other message carries
\* that id.  So when the model is called next, the history holds the
\* assistant turn followed by one tool message for each call it requested, in
\* request order.
C12_ToolMessagesFollowRequestOrder ==
  \A i \in ToolTurns :
    /\ Executed(i) \in 0..Len(messages[i].tool_calls)
    /\ \A k \in 1..Executed(i) :
         /\ messages[i + k].role = "tool"
         /\ messages[i + k].tool_call_id = messages[i].tool_calls[k].id
         /\ Cardinality({j \in DOMAIN messages :
                           /\ messages[j].role = "tool"
                           /\ messages[j].tool_call_id = messages[i].tool_calls[k].id}) = 1
    /\ IF i = LastToolTurn
       THEN /\ Len(messages) = i + Executed(i)
            /\ \A k \in 1..Len(tool_calls) :
                 /\ tool_calls[k].id = messages[i].tool_calls[Executed(i) + k].id
                 /\ tool_calls[k].name = messages[i].tool_calls[Executed(i) + k].function.name
            /\ pc = "model" => Executed(i) = Len(messages[i].tool_calls)
       ELSE (i + Executed(i) + 1) \in ToolTurns

\* A round of two tool calls has run to its end and another round has begun:
\* the two tool messages follow the assistant turn in the order of the calls.
C12_Witness ==
  \E i \in ToolTurns :
    /\ i # LastToolTurn
    /\ Len(messages[i].tool_calls) = 2
    /\ messages[i + 1].tool_call_id = messages[i].tool_calls[1].id
    /\ messages[i + 2].tool_call_id = messages[i].tool_calls[2].id
    /\ messages[i].tool_calls[1].id # messages[i].tool_calls[2].id
    /\ (i + 3) \in ToolTurns

\* The requests that a full fetch of the board's items makes when none of
\* them fails: one for the column titles, then one for each page.
FetchRequests(server, page_size) ==
  1 + (IF Len(server.items.rows) = 0 THEN 1
       ELSE (Len(server.items.rows) + page_size - 1) \div page_size)

\* One of the requests of the fetch fails: the request for the column titles,
\* the request for the first page, or the request for a later page.
FailsDuringFetch(server, page_size) ==
  server.failAt \in 1..FetchRequests(server, page_size)

\* C13: when a request of the paginated fetch fails, whether before any page
\* was received or after some were, get_all_items returns no rows: it raises
\* the failure, and the tool call ends with that error and without a payload
\* of rows.  The agent records a failed call as a tool_error, and a payload of
\* rows that goes back to the model is that of a board fetched whole, by a
\* fetch in which no request failed.
C13_FailedPageFailsTheFetch ==
  [][(/\ pc = "await_tool"
      /\ Call.name = "get_board_items"
      /\ ReachesServer(Call.name, args, AgentMondayKey, EnvMondayKey)) =>
       /\ \A server \in Answers(Call.name, args) :
            FailsDuringFetch(server, DefaultPageSize) =>
              /\ \E raw \in {get_all_items(server,
                                           board_map(args, config.deals_board_id, config.wo_board_id),
                                           DefaultPageSize)} :
                   /\ raw.raised # ""
                   /\ raw.text \in TransportErrors
                   /\ raw.value = <<>>
              /\ \E tried \in {TryTool(Call.name, args, server)} :
                   /\ tried.raised # ""
                   /\ tried.text \in TransportErrors
       /\ trace'[Len(trace')].type \in {"tool_error", "tool_result"}
       /\ trace'[Len(trace')].type = "tool_error" <=>
            "error" \in DOMAIN messages'[Len(messages')].content.json
       /\ "rows" \in DOMAIN messages'[Len(messages')].content.json =>
            \E server \in Answers(Call.name, args) :
              /\ ~FailsDuringFetch(server, DefaultPageSize)
              /\ server.exists
              /\ messages'[Len(messages')].content.json.total_rows =
                   Len(CleanedRows(args.board, server.items).rows)]_vars

\* A fetch of the deals board failed at the request for its second page, after
\* a full first page was received: the call is in the trace as a tool_error
\* and its tool message carries the error and no rows.
C13_Witness ==
  \E i \in DOMAIN trace :
    /\ i < Len(trace)
    /\ trace[i].type = "tool_call"
    /\ trace[i].content.tool = "get_board_items"
    /\ trace[i].content.board = "deals"
    /\ trace[i + 1].type = "tool_error"
    /\ trace[i + 1].content.error = <<"Monday.com HTTP 500: ", "Internal Server Error">>
    /\ \E j \in DOMAIN messages :
         /\ messages[j].role = "tool"
         /\ messages[j].content = [json |-> [error |-> trace[i + 1].content.error]]

(***************************************************************************)
(* The functions of data_cleaner.py applied on their own: a cleaner to a   *)
(* list of raw rows, the stage functions to a stage, the field-name        *)
(* mapping of clean_deals to a column title.                               *)
(***************************************************************************)
\* The most rows of a raw collection.
MaxRawRows == 2

\* The fields of a raw deal besides _id, by their titles on the board, and
\* the values a raw deal may have for them: a repeat of the header, a deal
\* whose status alone is the header label, in another casing, a deal with
\* padded and unusual values, a deal whose stage is the header label, and a
\* deal whose status is the header label within blanks.
DealFieldTitles ==
  << <<"_","n","a","m","e">>, <<"O","w","n","e","r"," ","c","o","d","e">>, <<"C","l","i","e","n","t"," ","C","o","d","e">>, <<"D","e","a","l"," ","S","t","a","t","u","s">>, <<"M","a","s","k","e","d"," ","D","e","a","l"," ","v","a","l","u","e">>,
     <<"D","e","a","l"," ","S","t","a","g","e">>, <<"S","e","c","t","o","r","/","s","e","r","v","i","c","e">>, <<"C","l","o","s","u","r","e"," ","P","r","o","b","a","b","i","l","i","t","y">> >>

DealRowValues ==
  { << Str(<<"D","e","a","l"," ","N","a","m","e">>), Str(<<"O","w","n","e","r"," ","c","o","d","e">>), Str(<<"C","l","i","e","n","t"," ","C","o","d","e">>), Str(<<"D","e","a","l"," ","S","t","a","t","u","s">>),
       Str(<<"M","a","s","k","e","d"," ","D","e","a","l"," ","v","a","l","u","e">>), Str(<<"D","e","a","l"," ","S","t","a","g","e">>), Str(<<"S","e","c","t","o","r","/","s","e","r","v","i","c","e">>),
       Str(<<"C","l","o","s","u","r","e"," ","P","r","o","b","a","b","i","l","i","t","y">>) >>,
    << Str(<<"A","l","p","h","a">>), Str(<<"O","W","N","-","1">>), Str(<<"C","L","-","1">>), Str(<<"d","E","A","L"," ","s","T","A","T","U","S">>),
       Str(<<"rupee","5",",","0","0",",","0","0","0">>), Str(<<"a","."," ","L","e","a","d"," ","G","e","n","e","r","a","t","e","d">>), Str(<<"m","i","n","i","n","g">>), Str(<<"h","i","g","h">>)  >>,
    << Str(<<"B","e","t","a">>), None, Str(<<"C","L","-","2">>), Str(<<" ","o","p","e","n"," ">>),
       Str(<<"1","2",".","5">>), Str(<<"Z","."," ","C","u","s","t","o","m">>), Str(<<" ","S","e","c","t","o","r"," ">>), None >>,
    << Str(<<"G","a","m","m","a">>), Str(<<"O","W","N","-","2">>), None, None,
       None, Str(<<"d","e","a","l"," ","s","t","a","g","e">>), None, Str(<<"L","O","W">>) >>,
    << Str(<<"D","e","l","t","a">>), None, None, Str(<<" ","D","e","a","l"," ","S","t","a","t","u","s"," ">>),
       Str(<<"n","/","a">>), None, Str(<<"P","o","w","e","r","l","i","n","e">>), Str(<<"m","e","d","i","u","m">>) >> }

\* The fields of a raw work order besides _id, and the values a raw work
\* order may have for them: a completed order, a repeat of the header, an
\* order with a sector that is the header label and amounts that are no
\* numbers, and an order with an unparsable and an infinite amount.
WoFieldTitles ==
  << <<"_","n","a","m","e">>, <<"C","u","s","t","o","m","e","r"," ","N","a","m","e"," ","C","o","d","e">>, <<"S","e","r","i","a","l"," ","#">>, <<"E","x","e","c","u","t","i","o","n"," ","S","t","a","t","u","s">>, <<"S","e","c","t","o","r">>, <<"T","y","p","e"," ","o","f"," ","W","o","r","k">>,
     <<"A","m","o","u","n","t"," ","i","n"," ","R","u","p","e","e","s"," ","(","E","x","c","l"," ","o","f"," ","G","S","T",")"," ","(","M","a","s","k","e","d",")">>,
     <<"C","o","l","l","e","c","t","e","d"," ","A","m","o","u","n","t"," ","i","n"," ","R","u","p","e","e","s"," ","(","I","n","c","l"," ","o","f"," ","G","S","T",".",")"," ","(","M","a","s","k","e","d",")">>, <<"B","D","/","K","A","M"," ","P","e","r","s","o","n","n","e","l"," ","c","o","d","e">> >>

WoRowValues ==
  { << Str(<<"A","l","p","h","a">>), Str(<<"C","U","S","T","-","1">>), Str(<<"S","D","P","L","/","1">>), Str(<<"C","o","m","p","l","e","t","e","d">>), Str(<<"M","i","n","i","n","g">>), Str(<<"S","u","r","v","e","y">>),
       Str(<<"1",",","0","0","0",".","5","0">>), Str(<<"rupee"," ","2","5","0">>), Str(<<"P","-","1">>) >>,
    << Str(<<"D","e","a","l"," ","N","a","m","e">>), Str(<<"C","u","s","t","o","m","e","r"," ","N","a","m","e"," ","C","o","d","e">>), Str(<<"S","e","r","i","a","l"," ","#">>), Str(<<"E","x","e","c","u","t","i","o","n"," ","S","t","a","t","u","s">>),
       Str(<<"S","e","c","t","o","r">>), Str(<<"T","y","p","e"," ","o","f"," ","W","o","r","k">>), Str(<<"A","m","o","u","n","t">>), Str(<<"C","o","l","l","e","c","t","e","d">>), Str(<<"P","e","r","s","o","n","n","e","l">>) >>,
    << Str(<<"B","e","t","a">>), None, None, Str(<<" ","o","n","g","o","i","n","g"," ">>), Str(<<"s","e","c","t","o","r","/","S","E","R","V","I","C","E">>), None,
       None, Str(<<"n","a","n">>), None >>,
    << Str(<<"G","a","m","m","a">>), Str(<<"C","U","S","T","-","2">>), Str(<<"7">>), None, None, Str(<<"I","n","s","p","e","c","t","i","o","n">>),
       Str(<<"1","2"," ","l","a","k","h">>), Str(<<"i","n","f">>), None >> }

\* The list of raw rows with the fields at the places in keep (the name of
\* the item is always there) and the values given, the way _row_from_item
\* makes them: every row has the same fields, and _id numbers the rows.
RawTable(titles, keep, values) ==
  IF values = <<>> THEN EmptyFrame
  ELSE [cols |-> << <<"_","i","d">> >> \o Pick(titles, keep, 1),
        rows |-> [r \in 1..Len(values) |-> << Str(NatDigits(r)) >> \o Pick(values[r], keep, 1)]]

\* The raw collections of up to MaxRawRows rows, of every subset of the fields.
RawTables(titles, rowvalues) ==
  {RawTable(titles, keep, values) :
     keep \in {k \in SUBSET (1..Len(titles)) : 1 \in k},
     values \in UNION {[1..n -> rowvalues] : n \in 0..MaxRawRows}}

\* The stages a raw deal may be at: none, the lettered stages as the board
\* spells them, stages that name keywords of two groups, and stages that
\* name none.
StageInputs ==
  { None, Str(<<>>), Str(<<"a","."," ","L","e","a","d"," ","G","e","n","e","r","a","t","e","d">>), Str(<<" ","B","."," ","s","a","l","e","s"," ","q","u","a","l","i","f","i","e","d"," ","l","e","a","d">>),
    Str(<<"c","."," ","D","e","m","o"," ","D","o","n","e">>), Str(<<"E","."," ","P","r","o","p","o","s","a","l","/","C","o","m","m","e","r","c","i","a","l","s"," ","S","e","n","t">>), Str(<<"H","."," ","W","o","r","k"," ","O","r","d","e","r"," ","R","e","c","e","i","v","e","d">>),
    Str(<<"L","."," ","P","r","o","j","e","c","t"," ","L","o","s","t">>), Str(<<"M","."," ","P","r","o","j","e","c","t","s"," ","O","n"," ","H","o","l","d">>), Str(<<"Z","."," ","C","u","s","t","o","m">>), Str(<<"q">>),
    Str(<<"D","e","m","o"," ","f","o","r"," ","l","e","a","d"," ","g","e","n","e","r","a","t","e","d">>), Str(<<"P","r","o","p","o","s","a","l"," ","a","f","t","e","r"," ","d","e","m","o">>), Str(<<"P","O","C"," ","i","n","v","o","i","c","e">>),
    Str(<<"W","o","r","k"," ","o","r","d","e","r"," ","l","o","s","t">>), Str(<<"S","a","l","e","s"," ","q","u","a","l","i","f","i","e","d",","," ","o","n"," ","h","o","l","d">>), Str(<<"N","e","g","o","t","i","a","t","i","o","n">>),
    Str(<<"A","m","o","u","n","t"," ","a","c","c","r","u","e","d",","," ","n","o","t"," ","r","e","l","e","v","a","n","t">>) }

\* str.upper()
Upper(s) == [i \in 1..Len(s) |-> UpperChar(s[i])]

\* str.replace("_", " ")
UnderscoresToSpaces(s) == [i \in 1..Len(s) |-> IF s[i] = "_" THEN " " ELSE s[i]]

\* str.capitalize()
Capitalize(s) == [i \in 1..Len(s) |-> IF i = 1 THEN UpperChar(s[i]) ELSE LowerChar(s[i])]

\* The spellings of a field name in lower, upper and title case and with its
\* first letter alone in upper case, with underscores and with spaces.
Spellings(name) ==
  { name, Upper(name), Title(name), Capitalize(name),
    UnderscoresToSpaces(name), Upper(UnderscoresToSpaces(name)),
    Title(UnderscoresToSpaces(name)), Capitalize(UnderscoresToSpaces(name)) }

\* The names that the field-name mapping of clean_deals knows for each
\* canonical field.
DealAliases ==
  { [canonical |-> <<"d","e","a","l","_","n","a","m","e">>,            names |-> {<<"d","e","a","l","_","n","a","m","e">>, <<"_","n","a","m","e">>}],
    [canonical |-> <<"o","w","n","e","r","_","c","o","d","e">>,           names |-> {<<"o","w","n","e","r","_","c","o","d","e">>, <<"d","e","a","l","_","o","w","n","e","r","_","c","o","d","e">>, <<"o","w","n","e","r">>}],
    [canonical |-> <<"c","l","i","e","n","t","_","c","o","d","e">>,          names |-> {<<"c","l","i","e","n","t","_","c","o","d","e">>, <<"c","o","m","p","a","n","y","_","n","a","m","e">>}],
    [canonical |-> <<"s","t","a","t","u","s">>,               names |-> {<<"d","e","a","l","_","s","t","a","t","u","s">>}],
    [canonical |-> <<"s","t","a","g","e","_","r","a","w">>,            names |-> {<<"d","e","a","l","_","s","t","a","g","e">>}],
    [canonical |-> <<"d","e","a","l","_","v","a","l","u","e","_","r","a","w">>,       names |-> {<<"m","a","s","k","e","d","_","d","e","a","l","_","v","a","l","u","e">>, <<"d","e","a","l","_","v","a","l","u","e">>}],
    [canonical |-> <<"c","l","o","s","u","r","e","_","p","r","o","b","a","b","i","l","i","t","y">>,  names |-> {<<"c","l","o","s","u","r","e","_","p","r","o","b","a","b","i","l","i","t","y">>, <<"p","r","o","b","a","b","i","l","i","t","y">>}],
    [canonical |-> <<"s","e","c","t","o","r","_","r","a","w">>,           names |-> {<<"s","e","c","t","o","r","/","s","e","r","v","i","c","e">>, <<"s","e","c","t","o","r">>}],
    [canonical |-> <<"t","e","n","t","a","t","i","v","e","_","c","l","o","s","e","_","d","a","t","e">>, names |-> {<<"t","e","n","t","a","t","i","v","e","_","c","l","o","s","e","_","d","a","t","e">>}],
    [canonical |-> <<"c","l","o","s","e","_","d","a","t","e","_","a","c","t","u","a","l">>,    names |-> {<<"c","l","o","s","e","_","d","a","t","e">>}],
    [canonical |-> <<"c","r","e","a","t","e","d","_","d","a","t","e">>,         names |-> {<<"c","r","e","a","t","e","d","_","d","a","t","e">>}] }

FieldNameInputs == UNION {UNION {Spellings(name) : name \in a.names} : a \in DealAliases}

\* Titles of the amount columns of a work-order board: the plain, billed,
\* to-be-billed, collected and receivable amounts, without and with GST.
WoAmountTitles ==
  { <<"A","m","o","u","n","t"," ","i","n"," ","R","u","p","e","e","s"," ","(","E","x","c","l"," ","o","f"," ","G","S","T",")"," ","(","M","a","s","k","e","d",")">>,
    <<"A","m","o","u","n","t"," ","i","n"," ","R","u","p","e","e","s"," ","(","I","n","c","l"," ","o","f"," ","G","S","T",")"," ","(","M","a","s","k","e","d",")">>,
    <<"B","i","l","l","e","d"," ","V","a","l","u","e"," ","i","n"," ","R","u","p","e","e","s"," ","(","E","x","c","l"," ","o","f"," ","G","S","T",".",")"," ","(","M","a","s","k","e","d",")">>,
    <<"B","i","l","l","e","d"," ","V","a","l","u","e"," ","i","n"," ","R","u","p","e","e","s"," ","(","I","n","c","l"," ","o","f"," ","G","S","T",".",")"," ","(","M","a","s","k","e","d",")">>,
    <<"A","m","o","u","n","t"," ","t","o"," ","b","e"," ","b","i","l","l","e","d"," ","i","n"," ","R","s","."," ","(","E","x","c","l"," ","o","f"," ","G","S","T",")"," ","(","M","a","s","k","e","d",")">>,
    <<"A","m","o","u","n","t"," ","t","o"," ","b","e"," ","b","i","l","l","e","d"," ","i","n"," ","R","s","."," ","(","I","n","c","l"," ","o","f"," ","G","S","T",")"," ","(","M","a","s","k","e","d",")">>,
    <<"C","o","l","l","e","c","t","e","d"," ","A","m","o","u","n","t"," ","i","n"," ","R","u","p","e","e","s"," ","(","E","x","c","l"," ","o","f"," ","G","S","T",".",")"," ","(","M","a","s","k","e","d",")">>,
    <<"C","o","l","l","e","c","t","e","d"," ","A","m","o","u","n","t"," ","i","n"," ","R","u","p","e","e","s"," ","(","I","n","c","l"," ","o","f"," ","G","S","T",".",")"," ","(","M","a","s","k","e","d",")">>,
    <<"A","m","o","u","n","t"," ","C","o","l","l","e","c","t","e","d"," ","e","x","c","l"," ","G","S","T">>,
    <<"A","m","o","u","n","t"," ","C","o","l","l","e","c","t","e","d"," ","i","n","c","l"," ","G","S","T">>,
    <<"A","m","o","u","n","t"," ","B","i","l","l","e","d"," ","e","x","c","l"," ","G","S","T">>,
    <<"A","m","o","u","n","t"," ","B","i","l","l","e","d"," ","i","n","c","l"," ","G","S","T">>,
    <<"A","m","o","u","n","t"," ","R","e","c","e","i","v","a","b","l","e"," ","(","M","a","s","k","e","d",")">> }

WoFieldNameInputs == UNION {Spellings(title) : title \in WoAmountTitles}

\* The functions applied and their arguments.
Inputs ==
  {[fn |-> "clean_deals", arg |-> t] : t \in RawTables(DealFieldTitles, DealRowValues)}
    \cup {[fn |-> "clean_workorders", arg |-> t] : t \in RawTables(WoFieldTitles, WoRowValues)}
    \cup {[fn |-> "deal_rename", arg |-> name] : name \in FieldNameInputs}
    \cup {[fn |-> "wo_rename", arg |-> name] : name \in WoFieldNameInputs}
    \cup {[fn |-> "stage_group", arg |-> stage] : stage \in StageInputs}

Applied(value) == [applied |-> TRUE, value |-> value]

\* No query runs while a function is applied on its own.
DataInit ==
  /\ input \in Inputs
  /\ output = NoOutput
  /\ config = CHOOSE c \in Configs : c.caller = "script"
  /\ pc = "idle"
  /\ messages = <<>>
  /\ trace = <<>>
  /\ loop_count = 0
  /\ fetched_deals_df = NotFetched
  /\ fetched_wo_df = NotFetched
  /\ tool_calls = <<>>
  /\ args = <<>>
  /\ model_calls = 0
  /\ free_calls = 0
  /\ msg = NoMessage
  /\ finish = ""
  /\ response = NoResponse
  /\ outcome = NoOutcome

\* clean_deals(rows)
CleanDeals ==
  /\ input.fn = "clean_deals"
  /\ ~output.applied
  /\ output' = Applied(clean_deals(input.arg))
  /\ UNCHANGED << input, query_vars >>

\* clean_workorders(rows)
CleanWorkorders ==
  /\ input.fn = "clean_workorders"
  /\ ~output.applied
  /\ output' = Applied(clean_workorders(input.arg))
  /\ UNCHANGED << input, query_vars >>

\* The if/elif chain of clean_deals for one column title.
RenameDealField ==
  /\ input.fn = "deal_rename"
  /\ ~output.applied
  /\ output' = Applied(deal_rename(input.arg))
  /\ UNCHANGED << input, query_vars >>

\* normalise_stage(stage) and stage_group, of the stage as it is and of the
\* stage normalised, as clean_deals applies it.
GroupStage ==
  /\ input.fn = "stage_group"
  /\ ~output.applied
  /\ output' = Applied([stage       |-> normalise_stage(input.arg),
                        stage_group |-> stage_group(normalise_stage(input.arg)),
                        group       |-> stage_group(input.arg)])
  /\ UNCHANGED << input, query_vars >>

\* The if/elif chain of clean_workorders for one column title.
RenameWoField ==
  /\ input.fn = "wo_rename"
  /\ ~output.applied
  /\ output' = Applied(wo_rename(input.arg))
  /\ UNCHANGED << input, query_vars >>

DataNext ==
  \/ CleanDeals
  \/ CleanWorkorders
  \/ RenameDealField
  \/ RenameWoField
  \/ GroupStage

DataSpec == DataInit /\ [][DataNext]_vars

\* The value a raw row has for the field of that title: None where the
\* collection does not carry the field.
RawField(rows, r, title) == IF HasCol(rows, title) THEN Col(rows, title)[r] ELSE None

\* The value is a text that equals one of the labels in some letter casing.
IsLabel(v, labels) == v.t = "str" /\ Lower(v.s) \in labels

\* The raw deal is a header repeat by its status, and by any of its status,
\* stage and sector.
StatusIsHeader(rows, r) == IsLabel(RawField(rows, r, <<"D","e","a","l"," ","S","t","a","t","u","s">>), {<<"d","e","a","l"," ","s","t","a","t","u","s">>})

DealSentinel(rows, r) ==
  \/ IsLabel(RawField(rows, r, <<"D","e","a","l"," ","S","t","a","t","u","s">>), SENTINEL_DEAL_STATUS)
  \/ IsLabel(RawField(rows, r, <<"D","e","a","l"," ","S","t","a","g","e">>), SENTINEL_DEAL_STAGE)
  \/ IsLabel(RawField(rows, r, <<"S","e","c","t","o","r","/","s","e","r","v","i","c","e">>), SENTINEL_SECTOR)

\* C14: clean_deals returns a collection for every raw deal collection, and
\* the deals of it are the raw deals that are no sentinel, all of them and in
\* their order, under their names; a raw deal whose status equals "Deal
\* Status" in any letter casing is not among them, whatever its other fields
\* hold.
C14_DealSentinelsAreDropped ==
  (input.fn = "clean_deals" /\ output.applied) =>
    /\ ~output.value.raised
    /\ Len(output.value.df.rows) =
         Cardinality({r \in 1..Len(input.arg.rows) : ~DealSentinel(input.arg, r)})
    /\ input.arg.rows # <<>> =>
         /\ Col(output.value.df, <<"_","i","d">>) =
              Pick(Col(input.arg, <<"_","i","d">>),
                   {r \in 1..Len(input.arg.rows) : ~DealSentinel(input.arg, r)}, 1)
         /\ Col(output.value.df, <<"d","e","a","l","_","n","a","m","e">>) =
              Pick(Col(input.arg, <<"_","n","a","m","e">>),
                   {r \in 1..Len(input.arg.rows) : ~DealSentinel(input.arg, r)}, 1)
         /\ \A r \in 1..Len(input.arg.rows) :
              StatusIsHeader(input.arg, r) =>
                \A i \in 1..Len(output.value.df.rows) :
                  Col(output.value.df, <<"_","i","d">>)[i] # Col(input.arg, <<"_","i","d">>)[r]

\* clean_deals was applied to two raw deals, the first with the status "dEAL
\* sTATUS" and a value, a stage and a sector of its own, the second a deal
\* that is no sentinel: the second alone is in the result.
C14_Witness ==
  /\ input.fn = "clean_deals"
  /\ output.applied
  /\ Len(input.arg.rows) = 2
  /\ StatusIsHeader(input.arg, 1)
  /\ RawField(input.arg, 1, <<"D","e","a","l"," ","S","t","a","g","e">>) = Str(<<"a","."," ","L","e","a","d"," ","G","e","n","e","r","a","t","e","d">>)
  /\ RawField(input.arg, 1, <<"S","e","c","t","o","r","/","s","e","r","v","i","c","e">>) = Str(<<"m","i","n","i","n","g">>)
  /\ ~DealSentinel(input.arg, 2)
  /\ Len(output.value.df.rows) = 1
  /\ Col(output.value.df, <<"_","i","d">>) = << Str(<<"2">>) >>

\* The raw work order is a header repeat by its sector.
WoSentinel(rows, r) == IsLabel(RawField(rows, r, <<"S","e","c","t","o","r">>), SENTINEL_SECTOR)

\* C15 as stated: clean_workorders drops the sentinel rows as clean_deals
\* does: a raw work order whose sector equals "Sector" or "Sector/service" in
\* any letter casing is not in the cleaned collection.
C15_WoSentinelsAreDropped ==
  (input.fn = "clean_workorders" /\ output.applied /\ input.arg.rows # <<>>) =>
    /\ ~output.value.raised
    /\ \A r \in 1..Len(input.arg.rows) :
         WoSentinel(input.arg, r) =>
           \A i \in 1..Len(output.value.df.rows) :
             Col(output.value.df, <<"_","i","d">>)[i] # Col(input.arg, <<"_","i","d">>)[r]

\* The canonical fields of a deal and of a work order.
DealCanonicalFields ==
  { <<"d","e","a","l","_","n","a","m","e">>, <<"o","w","n","e","r","_","c","o","d","e">>, <<"c","l","i","e","n","t","_","c","o","d","e">>, <<"s","t","a","t","u","s">>, <<"d","e","a","l","_","v","a","l","u","e">>, <<"s","t","a","g","e">>, <<"s","t","a","g","e","_","g","r","o","u","p">>,
    <<"s","e","c","t","o","r">>, <<"c","l","o","s","u","r","e","_","p","r","o","b","a","b","i","l","i","t","y">>, <<"i","s","_","o","p","e","n">>, <<"i","s","_","w","o","n">>, <<"i","s","_","d","e","a","d">>, <<"i","s","_","o","n","_","h","o","l","d">> }

WoCanonicalFields ==
  { <<"d","e","a","l","_","n","a","m","e">>, <<"c","u","s","t","o","m","e","r","_","c","o","d","e">>, <<"s","e","r","i","a","l","_","n","o">>, <<"e","x","e","c","u","t","i","o","n","_","s","t","a","t","u","s">>, <<"s","e","c","t","o","r">>, <<"t","y","p","e","_","o","f","_","w","o","r","k">>,
    <<"a","m","o","u","n","t","_","e","x","c","l","_","g","s","t">>, <<"a","m","o","u","n","t","_","i","n","c","l","_","g","s","t">>, <<"b","i","l","l","e","d","_","i","n","c","l","_","g","s","t">>, <<"c","o","l","l","e","c","t","e","d">>, <<"r","e","c","e","i","v","a","b","l","e">>,
    <<"b","i","l","l","i","n","g","_","s","t","a","t","u","s">>, <<"w","o","_","s","t","a","t","u","s">>, <<"p","e","r","s","o","n","n","e","l","_","c","o","d","e">>, <<"i","s","_","c","o","m","p","l","e","t","e","d">>, <<"i","s","_","o","n","g","o","i","n","g">> }

\* C16 as stated: whichever fields the raw rows carry, the cleaned deals have
\* every canonical deal field and the cleaned work orders every canonical
\* work-order field.
C16_AllCanonicalFieldsPresent ==
  /\ (input.fn = "clean_deals" /\ output.applied) =>
       /\ ~output.value.raised
       /\ \A name \in DealCanonicalFields : HasCol(output.value.df, name)
  /\ (input.fn = "clean_workorders" /\ output.applied) =>
       /\ ~output.value.raised
       /\ \A name \in WoCanonicalFields : HasCol(output.value.df, name)

\* The number a raw amount stands for: the amounts of the raw work orders
\* that are numerals, and 0.0 for a null and for every other text.
AmountOf(v) ==
  CASE v = Str(<<"1",",","0","0","0",".","5","0">>) -> Float(100050)
    [] v = Str(<<"rupee"," ","2","5","0">>)    -> Float(25000)
    [] v = Str(<<"i","n","f">>)      -> Inf(1)
    [] OTHER               -> Float(0)

\* The raw field that each financial field of a work order is read from.
WoFinancialSource(name) ==
  CASE name = <<"a","m","o","u","n","t","_","e","x","c","l","_","g","s","t">> -> <<"A","m","o","u","n","t"," ","i","n"," ","R","u","p","e","e","s"," ","(","E","x","c","l"," ","o","f"," ","G","S","T",")"," ","(","M","a","s","k","e","d",")">>
    [] name = <<"c","o","l","l","e","c","t","e","d">>       -> <<"C","o","l","l","e","c","t","e","d"," ","A","m","o","u","n","t"," ","i","n"," ","R","u","p","e","e","s"," ","(","I","n","c","l"," ","o","f"," ","G","S","T",".",")"," ","(","M","a","s","k","e","d",")">>
    [] OTHER                    -> <<"(","n","o","t"," ","o","n"," ","t","h","e"," ","b","o","a","r","d",")">>

\* C17: clean_workorders returns a collection for every raw work-order
\* collection, and each of the five financial fields of every work order of
\* it is a float that is not null: the number its raw value stands for, and
\* 0.0 where the raw field is missing, null, or no numeral.
C17_FinancialsAreNeverNull ==
  (input.fn = "clean_workorders" /\ output.applied) =>
    /\ ~output.value.raised
    /\ Len(output.value.df.rows) = Len(input.arg.rows)
    /\ \A i \in 1..Len(WoFinancialColumns) :
         /\ HasCol(output.value.df, WoFinancialColumns[i])
         /\ \A r \in 1..Len(output.value.df.rows) :
              /\ Col(output.value.df, WoFinancialColumns[i])[r].t \in {"float", "inf"}
              /\ Col(output.value.df, WoFinancialColumns[i])[r] =
                   AmountOf(RawField(input.arg, r, WoFinancialSource(WoFinancialColumns[i])))

\* clean_workorders was applied to a work order with the amount "1,000.50"
\* and a work order with no amount: the amounts are 1000.5 and 0.0, and the
\* fields that the board does not carry are 0.0.
C17_Witness ==
  /\ input.fn = "clean_workorders"
  /\ output.applied
  /\ Len(input.arg.rows) = 2
  /\ RawField(input.arg, 1, <<"A","m","o","u","n","t"," ","i","n"," ","R","u","p","e","e","s"," ","(","E","x","c","l"," ","o","f"," ","G","S","T",")"," ","(","M","a","s","k","e","d",")">>) = Str(<<"1",",","0","0","0",".","5","0">>)
  /\ HasCol(input.arg, <<"A","m","o","u","n","t"," ","i","n"," ","R","u","p","e","e","s"," ","(","E","x","c","l"," ","o","f"," ","G","S","T",")"," ","(","M","a","s","k","e","d",")">>)
  /\ RawField(input.arg, 2, <<"A","m","o","u","n","t"," ","i","n"," ","R","u","p","e","e","s"," ","(","E","x","c","l"," ","o","f"," ","G","S","T",")"," ","(","M","a","s","k","e","d",")">>) = None
  /\ RawField(input.arg, 2, <<"C","o","l","l","e","c","t","e","d"," ","A","m","o","u","n","t"," ","i","n"," ","R","u","p","e","e","s"," ","(","I","n","c","l"," ","o","f"," ","G","S","T",".",")"," ","(","M","a","s","k","e","d",")">>) = Str(<<"n","a","n">>)
  /\ Col(output.value.df, <<"a","m","o","u","n","t","_","e","x","c","l","_","g","s","t">>) = << Float(100050), Float(0) >>
  /\ Col(output.value.df, <<"c","o","l","l","e","c","t","e","d">>)[2] = Float(0)
  /\ Col(output.value.df, <<"r","e","c","e","i","v","a","b","l","e">>) = << Float(0), Float(0) >>

\* C18: the field-name mapping of clean_deals gives every spelling of a known
\* name of a field, in whatever letter case and with spaces or underscores
\* between its words, the canonical name of that field: "Owner code",
\* "OWNER_CODE" and "Deal Owner Code" all become owner_code.
C18_AliasSpellingsMapToOneName ==
  (input.fn = "deal_rename" /\ output.applied) =>
    /\ \E a \in DealAliases : \E name \in a.names : input.arg \in Spellings(name)
    /\ \A a \in DealAliases :
         (\E name \in a.names : input.arg \in Spellings(name)) => output.value = a.canonical
    /\ input.arg \in {<<"O","w","n","e","r"," ","c","o","d","e">>, <<"O","W","N","E","R","_","C","O","D","E">>, <<"D","e","a","l"," ","O","w","n","e","r"," ","C","o","d","e">>} =>
         output.value = <<"o","w","n","e","r","_","c","o","d","e">>

\* The mapping was applied to the title "Deal Owner Code" and gave owner_code.
C18_Witness ==
  /\ input.fn = "deal_rename"
  /\ input.arg = <<"D","e","a","l"," ","O","w","n","e","r"," ","C","o","d","e">>
  /\ output.applied
  /\ output.value = <<"o","w","n","e","r","_","c","o","d","e">>

\* The five groups of stage_group in the order given, each with its keywords.
StageBuckets ==
  << [label |-> <<"E","a","r","l","y"," ","S","t","a","g","e">>,     keywords |-> {<<"l","e","a","d"," ","g","e","n","e","r","a","t","e","d">>, <<"s","a","l","e","s"," ","q","u","a","l","i","f","i","e","d">>}],
     [label |-> <<"Q","u","a","l","i","f","i","c","a","t","i","o","n">>,   keywords |-> {<<"d","e","m","o">>, <<"f","e","a","s","i","b","i","l","i","t","y">>}],
     [label |-> <<"A","c","t","i","v","e"," ","P","u","r","s","u","i","t">>,  keywords |-> {<<"p","r","o","p","o","s","a","l">>, <<"n","e","g","o","t","i","a","t">>, <<"p","o","c">>}],
     [label |-> <<"W","o","n","/","E","x","e","c","u","t","i","o","n">>,   keywords |-> {<<"w","o","r","k"," ","o","r","d","e","r">>, <<"p","r","o","j","e","c","t"," ","w","o","n">>, <<"i","n","v","o","i","c","e">>,
                                                 <<"a","m","o","u","n","t"," ","a","c","c","r","u","e","d">>}],
     [label |-> <<"C","l","o","s","e","d","/","I","n","a","c","t","i","v","e">>, keywords |-> {<<"l","o","s","t">>, <<"n","o","t"," ","r","e","l","e","v","a","n","t">>, <<"o","n"," ","h","o","l","d">>}] >>

\* The groups a stage has a keyword of, with letter case set aside.
BucketsMatching(stage) ==
  {i \in 1..Len(StageBuckets) :
     \E keyword \in StageBuckets[i].keywords : Contains(Lower(stage.s), keyword)}

\* The group of a stage: Unknown for no stage, the first group it has a
\* keyword of, Other when it has a keyword of none.
GroupOf(stage) ==
  IF stage.t = "none" \/ stage.s = <<>> THEN <<"U","n","k","n","o","w","n">>
  ELSE IF BucketsMatching(stage) = {} THEN <<"O","t","h","e","r">>
  ELSE StageBuckets[CHOOSE i \in BucketsMatching(stage) :
                       \A j \in BucketsMatching(stage) : i <= j].label

\* C19: stage_group gives a stage the first of the groups Early Stage,
\* Qualification, Active Pursuit, Won/Execution, Closed/Inactive, in that
\* order, that it has a keyword of, "Other" when it has a keyword of none and
\* "Unknown" when there is no stage; the raw stage "a. Lead Generated" is
\* normalised to the label of the letter A and grouped as "Early Stage".
C19_StageGroupFirstMatchWins ==
  (input.fn = "stage_group" /\ output.applied) =>
    /\ output.value.group = GroupOf(input.arg)
    /\ output.value.stage_group = GroupOf(output.value.stage)
    /\ input.arg = Str(<<"a","."," ","L","e","a","d"," ","G","e","n","e","r","a","t","e","d">>) =>
         /\ output.value.stage = Str(<<"A"," ","endash"," ","L","e","a","d"," ","G","e","n","e","r","a","t","e","d">>)
         /\ output.value.stage_group = <<"E","a","r","l","y"," ","S","t","a","g","e">>

\* stage_group was applied to a stage that has a keyword of the second group
\* and one of the third, and gave the second.
C19_Witness ==
  /\ input.fn = "stage_group"
  /\ output.applied
  /\ BucketsMatching(input.arg) = {2, 3}
  /\ output.value.group = <<"Q","u","a","l","i","f","i","c","a","t","i","o","n">>

\* C20 as stated: a reply of the model that holds tool-call requests does not
\* end the query, whatever its finish reason: its assistant turn is in the
\* history with the calls it requested, and the query has not returned an
\* answer of the model; an answer of the model is returned only for a reply
\* without tool-call requests.
C20_ToolRequestsAreDispatched ==
  /\ msg.tool_calls # <<>> =>
       /\ ToolTurns # {}
       /\ [k \in DOMAIN msg.tool_calls |-> msg.tool_calls[k].id] =
            [k \in DOMAIN messages[LastToolTurn].tool_calls |->
               messages[LastToolTurn].tool_calls[k].id]
       /\ response.state = "returned" => response.answer = LOOP_LIMIT_ANSWER
  /\ (trace # <<>> /\ trace[Len(trace)].type = "answer") => msg.tool_calls = <<>>

\* The title, lower-cased and with underscores for spaces, names a billed or
\* a collected amount.
BilledOrCollected(title) ==
  \E lc \in {SpacesToUnderscores(Lower(title))} :
    Contains(lc, <<"b","i","l","l","e","d">>) \/ Contains(lc, <<"c","o","l","l","e","c","t","e","d">>)

\* C21 as stated: the field-name mapping of clean_workorders gives no column
\* whose normalised title contains "billed" or "collected" the name of a
\* plain amount, amount_excl_gst_raw or amount_incl_gst_raw, whether the
\* title says "excl" or "incl".
C21_BilledAndCollectedAreNotPlainAmounts ==
  (input.fn = "wo_rename" /\ output.applied /\ BilledOrCollected(input.arg)) =>
    output.value \notin {<<"a","m","o","u","n","t","_","e","x","c","l","_","g","s","t","_","r","a","w">>, <<"a","m","o","u","n","t","_","i","n","c","l","_","g","s","t","_","r","a","w">>}

\* The calls of the turn at place i that have begun: those executed, and in
\* the current round the call whose tool is running.
Begun(i) ==
  Executed(i) + (IF i = LastToolTurn /\ pc = "await_tool" THEN 1 ELSE 0)

\* The names of the tools of the calls begun in the first i messages, in the
\* order of their execution.
RECURSIVE BegunTools(_)
BegunTools(i) ==
  IF i = 0 THEN <<>>
  ELSE BegunTools(i - 1) \o
         (IF i \in ToolTurns
          THEN [k \in 1..Begun(i) |-> messages[i].tool_calls[k].function.name]
          ELSE <<>>)

\* The trace pairs the calls begun, in the order of their execution: the
\* entry at 2k-1 is the tool_call entry of the k-th call, the entry at 2k is
\* the one tool_result or tool_error entry of that call, there once the tool
\* has finished and not while it runs, and nothing but answer entries follows.
TraceFollowsExecution(tools) ==
  \E finished \in {Len(tools) - (IF pc = "await_tool" THEN 1 ELSE 0)} :
    /\ finished >= 0
    /\ Len(trace) >= Len(tools) + finished
    /\ \A k \in 1..Len(tools) :
         /\ trace[2 * k - 1].type = "tool_call"
         /\ trace[2 * k - 1].content.tool = tools[k]
    /\ \A k \in 1..finished :
         /\ trace[2 * k].type \in {"tool_result", "tool_error"}
         /\ trace[2 * k].content.tool = tools[k]
    /\ \A j \in (Len(tools) + finished + 1)..Len(trace) : trace[j].type = "answer"

\* C22: the trace of a query only grows, every step leaving the entries it
\* holds as they are, and at every point it holds for each tool call begun so
\* far a tool_call entry, written before the tool runs, directly followed
\* once the tool has finished by exactly one tool_result or tool_error entry
\* of the same tool, the pairs standing in the order of execution.
C22_TraceRecordsEveryCallInOrder ==
  /\ [][/\ Len(trace') >= Len(trace)
        /\ SubSeq(trace', 1, Len(trace)) = trace]_vars
  /\ [](QueryBegan => TraceFollowsExecution(BegunTools(Len(messages))))

\* A second tool call is running after a first that raised: the trace holds
\* the pair of the first call and the tool_call entry of the second.
C22_Witness ==
  /\ pc = "await_tool"
  /\ Len(trace) = 3
  /\ trace[1].type = "tool_call"
  /\ trace[2].type = "tool_error"
  /\ trace[2].content.tool = trace[1].content.tool
  /\ trace[3].type = "tool_call"
  /\ trace[3].content.tool = Head(tool_calls).name

\* C23 as stated: whenever query has returned a response, the loop-limit
\* response included, the trace ends with an answer entry whose text is the
\* answer returned, and holds no other answer entry.
C23_TraceEndsWithTheAnswer ==
  response.state = "returned" =>
    /\ trace # <<>>
    /\ trace[Len(trace)].type = "answer"
    /\ trace[Len(trace)].content.text = response.answer
    /\ Cardinality({i \in DOMAIN trace : trace[i].type = "answer"}) = 1

\* The argument payload is JSON but no object, or there is no payload.
NotAnObject(arguments) == arguments.kind \notin {"object", "invalid"}

\* C24 as stated: a tool call whose arguments are JSON but no object (an
\* array, a number, a string, null), or are absent, does not abort the query:
\* when the loop comes to such a call, the step it takes records the
\* tool_call entry and goes on to the tool message, and the query never ends
\* with such a call still at the head of the calls of the round.
C24_NonObjectArgumentsAreHandled ==
  /\ [][(pc = "tool" /\ NotAnObject(Head(tool_calls).arguments)) =>
          /\ ~QueryEnded'
          /\ pc' = "await_tool"
          /\ Len(trace') = Len(trace) + 1
          /\ trace'[Len(trace')].type = "tool_call"]_vars
  /\ []((tool_calls # <<>> /\ NotAnObject(Head(tool_calls).arguments)) => ~QueryEnded)

\* C25 as stated: the collection retained after a successful get_board_items
\* call holds every cleaned row of that fetch, so the row count that the
\* final quality report gives for a board equals total_rows of the payload
\* of the board's latest fetch, also when total_rows is above the cap of 30
\* rows sent to the model.
C25_ReportCountsEveryFetchedRow ==
  (pc = "done" /\ response.state = "returned" /\ response.quality.some) =>
    /\ ItemsMessages("deals") # {} =>
         response.quality.report.deals_rows = LatestItems("deals").total_rows
    /\ ItemsMessages("workorders") # {} =>
         response.quality.report.wo_rows = LatestItems("workorders").total_rows

=============================================================================
